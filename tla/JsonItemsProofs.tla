-------------------------- MODULE JsonItemsProofs ---------------------------
(***************************************************************************)
(* What the functions on items do to a heap of any size.  Its pointers show   *)
(* the lists of children of a forest: the functions that link and detach an   *)
(* item do to the lists what their names say, and those that free or copy a   *)
(* whole tree are runs of steps that end, and that leave every block counted. *)
(***************************************************************************)
EXTENDS JsonItems, ItemTrees, SequenceTheorems, FiniteSetTheorems,
        WellFoundedInduction, TLAPS

LEMMA MakeSeq ==
    ASSUME NEW S, NEW n \in Nat, NEW f \in [1..n -> S]
    PROVE  f \in Seq(S) /\ Len(f) = n
<1>1. f \in Seq(S)
  BY SeqDef
<1>2. Len(f) \in Nat /\ DOMAIN f = 1..Len(f) /\ DOMAIN f = 1..n
  BY <1>1, LenProperties
<1> QED
  BY <1>1, <1>2

LEMMA WithoutList ==
    ASSUME NEW s \in Seq(Items), NEW k \in 1..Len(s)
    PROVE  /\ Without(s, k) \in Seq(Items)
           /\ Len(Without(s, k)) = Len(s) - 1
           /\ \A n \in 1..(Len(s) - 1) :
                 Without(s, k)[n] = IF n < k THEN s[n] ELSE s[n + 1]
<1>1. Len(s) \in Nat /\ \A n \in 1..Len(s) : s[n] \in Items
  BY LenProperties
<1>2. Len(s) - 1 \in Nat
  BY <1>1
<1>3. \A n \in 1..(Len(s) - 1) : n \in 1..Len(s) /\ n + 1 \in 1..Len(s)
  BY <1>1
<1>4. Without(s, k) \in [1..(Len(s) - 1) -> Items]
  BY <1>1, <1>3 DEF Without
<1> QED
  BY <1>2, <1>4, MakeSeq DEF Without

LEMMA InsertedList ==
    ASSUME NEW s \in Seq(Items), NEW k \in 1..(Len(s) + 1), NEW i \in Items
    PROVE  /\ Inserted(s, k, i) \in Seq(Items)
           /\ Len(Inserted(s, k, i)) = Len(s) + 1
           /\ \A n \in 1..(Len(s) + 1) :
                 Inserted(s, k, i)[n] =
                     IF n < k THEN s[n] ELSE IF n = k THEN i ELSE s[n - 1]
<1>1. Len(s) \in Nat /\ \A n \in 1..Len(s) : s[n] \in Items
  BY LenProperties
<1>2. Len(s) + 1 \in Nat
  BY <1>1
<1>3. \A n \in 1..(Len(s) + 1) :
         /\ n < k => n \in 1..Len(s)
         /\ n > k => n - 1 \in 1..Len(s)
  BY <1>1
<1>4. Inserted(s, k, i) \in [1..(Len(s) + 1) -> Items]
  <2> SUFFICES ASSUME NEW n \in 1..(Len(s) + 1)
               PROVE  (IF n < k THEN s[n] ELSE IF n = k THEN i ELSE s[n - 1]) \in Items
    BY DEF Inserted
  <2>1. n < k \/ n = k \/ n > k
    BY <1>1
  <2> QED
    BY <1>1, <1>3, <2>1
<1> QED
  BY <1>2, <1>4, MakeSeq DEF Inserted

(* The elements of a list without one, or with one more. *)
LEMMA WithoutElements ==
    ASSUME NEW s \in Seq(Items), NEW k \in 1..Len(s)
    PROVE  /\ Elements(Without(s, k)) \subseteq Elements(s)
           /\ Elements(s) \subseteq Elements(Without(s, k)) \cup {s[k]}
<1>1. Len(s) \in Nat
  BY LenProperties
<1>2. \A n \in 1..(Len(s) - 1) : n \in 1..Len(s) /\ n + 1 \in 1..Len(s)
  BY <1>1
<1>3. Elements(Without(s, k)) \subseteq Elements(s)
  <2> SUFFICES ASSUME NEW n \in 1..(Len(s) - 1)
               PROVE  Without(s, k)[n] \in Elements(s)
    BY WithoutList DEF Elements
  <2>1. Without(s, k)[n] = s[n] \/ Without(s, k)[n] = s[n + 1]
    BY WithoutList
  <2> QED
    BY <1>2, <2>1 DEF Elements
<1>4. ASSUME NEW m \in 1..Len(s), m # k
      PROVE  s[m] \in Elements(Without(s, k))
  <2>1. CASE m < k
    <3>1. m \in 1..(Len(s) - 1)
      BY <1>1, <2>1
    <3>2. Without(s, k)[m] = s[m]
      BY <2>1, <3>1, WithoutList
    <3> QED
      BY <3>1, <3>2, WithoutList DEF Elements
  <2>2. CASE m > k
    <3>1. m - 1 \in 1..(Len(s) - 1) /\ ~(m - 1 < k) /\ (m - 1) + 1 = m
      BY <1>1, <2>2
    <3>2. Without(s, k)[m - 1] = s[m]
      BY <3>1, WithoutList
    <3> QED
      BY <3>1, <3>2, WithoutList DEF Elements
  <2> QED
    BY <1>1, <1>4, <2>1, <2>2
<1> QED
  BY <1>3, <1>4 DEF Elements

LEMMA InsertedElements ==
    ASSUME NEW s \in Seq(Items), NEW k \in 1..(Len(s) + 1), NEW i \in Items
    PROVE  Elements(Inserted(s, k, i)) = Elements(s) \cup {i}
<1>1. \A n \in 1..(Len(s) + 1) :
         Inserted(s, k, i)[n] =
             IF n < k THEN s[n] ELSE IF n = k THEN i ELSE s[n - 1]
  BY InsertedList
<1>2. Len(s) \in Nat
  BY LenProperties
<1>3. ASSUME NEW n \in 1..(Len(s) + 1)
      PROVE  Inserted(s, k, i)[n] \in Elements(s) \cup {i}
  <2>1. CASE n < k
    <3>1. n \in 1..Len(s) /\ Inserted(s, k, i)[n] = s[n]
      BY <1>2, <2>1, InsertedList
    <3> QED
      BY <3>1 DEF Elements
  <2>2. CASE n = k
    BY <2>2, <1>2, InsertedList
  <2>3. CASE n > k
    <3>1. n - 1 \in 1..Len(s) /\ ~(n < k) /\ n # k
      BY <1>2, <2>3
    <3>2. Inserted(s, k, i)[n] = s[n - 1]
      BY <3>1, InsertedList
    <3> QED
      BY <3>1, <3>2 DEF Elements
  <2> QED
    BY <1>2, <2>1, <2>2, <2>3
<1>4. Elements(Inserted(s, k, i)) =
          {Inserted(s, k, i)[n] : n \in 1..(Len(s) + 1)}
  BY InsertedList DEF Elements
<1>5. ASSUME NEW m \in 1..Len(s)
      PROVE  s[m] \in Elements(Inserted(s, k, i))
  <2>1. CASE m < k
    <3>1. m \in 1..(Len(s) + 1)
      BY <1>2
    <3>2. Inserted(s, k, i)[m] = s[m]
      BY <1>1, <2>1, <3>1
    <3> QED
      BY <1>4, <3>1, <3>2
  <2>2. CASE ~(m < k)
    <3>1. PICK n \in 1..(Len(s) + 1) : ~(n < k) /\ n # k /\ n - 1 = m
      <4>1. m + 1 \in 1..(Len(s) + 1) /\ ~(m + 1 < k) /\ m + 1 # k /\ (m + 1) - 1 = m
        BY <1>2, <2>2
      <4> QED
        BY <4>1
    <3>2. Inserted(s, k, i)[n] = s[n - 1]
      BY <1>1, <3>1
    <3>3. Inserted(s, k, i)[n] = s[m]
      BY <3>1, <3>2
    <3> QED
      BY <1>4, <3>3
  <2> QED
    BY <2>1, <2>2
<1>6. i \in Elements(Inserted(s, k, i))
  <2>1. Inserted(s, k, i)[k] = i
    BY <1>2, InsertedList
  <2> QED
    BY <2>1, InsertedList DEF Elements
<1>7. Elements(Inserted(s, k, i)) \subseteq Elements(s) \cup {i}
  BY <1>3, <1>4
<1>8. Elements(s) \subseteq Elements(Inserted(s, k, i))
  <2> HIDE DEF Elements
  <2> SUFFICES ASSUME NEW e \in Elements(s)
               PROVE  e \in Elements(Inserted(s, k, i))
    OBVIOUS
  <2>1. PICK m \in 1..Len(s) : e = s[m]
    BY DEF Elements
  <2> QED
    BY <1>5, <2>1
<1> QED
  BY <1>6, <1>7, <1>8

-----------------------------------------------------------------------------
LEMMA ElementsAreItems ==
    ASSUME NEW k \in [Items -> Seq(Items)], NEW j \in Items
    PROVE  Elements(k[j]) \subseteq Items
BY ElementOfSeq DEF Elements

LEMMA TreeHasRoot ==
    ASSUME NEW k, NEW i \in Items
    PROVE  i \in Tree(k, i) /\ Tree(k, i) \subseteq Items
BY DEF Tree

LEMMA TreeClosed ==
    ASSUME NEW k \in [Items -> Seq(Items)], NEW i \in Items,
           NEW j \in Tree(k, i)
    PROVE  Elements(k[j]) \subseteq Tree(k, i)
<1> SUFFICES ASSUME NEW z \in Elements(k[j]), NEW S \in SUBSET Items,
                    i \in S, Closed(k, S)
             PROVE  z \in Items /\ z \in S
  BY ElementsAreItems DEF Tree
<1>1. j \in Items /\ j \in S
  BY DEF Tree
<1> QED
  BY <1>1, ElementsAreItems DEF Closed

LEMMA TreeLeast ==
    ASSUME NEW k, NEW i \in Items, NEW S \in SUBSET Items,
           i \in S, Closed(k, S)
    PROVE  Tree(k, i) \subseteq S
BY DEF Tree

(* But for the root, an item of a tree is a child of another one of it. *)
LEMMA TreeParent ==
    ASSUME NEW k \in [Items -> Seq(Items)], NEW i \in Items,
           NEW j \in Tree(k, i), j # i
    PROVE  \E y \in Tree(k, i) : j \in Elements(k[y])
<1> SUFFICES ASSUME \A y \in Tree(k, i) : j \notin Elements(k[y])
             PROVE  FALSE
  OBVIOUS
<1> DEFINE S == Tree(k, i) \ {j}
<1>1. S \in SUBSET Items /\ i \in S
  BY TreeHasRoot
<1>2. Closed(k, S)
  BY TreeClosed DEF Closed
<1>3. Tree(k, i) \subseteq S
  BY <1>1, <1>2, TreeLeast
<1> QED
  BY <1>3

(* With fewer children there are fewer items in a tree. *)
LEMMA TreeMonotonic ==
    ASSUME NEW k \in [Items -> Seq(Items)], NEW k2 \in [Items -> Seq(Items)],
           NEW i \in Items,
           \A j \in Items : Elements(k2[j]) \subseteq Elements(k[j])
    PROVE  Tree(k2, i) \subseteq Tree(k, i)
<1>1. Closed(k2, Tree(k, i))
  BY TreeClosed, TreeHasRoot DEF Closed
<1> QED
  BY <1>1, TreeHasRoot, TreeLeast

-----------------------------------------------------------------------------
(* The parts of the invariant, of items l in use with children k and roots h. *)
Typed(l, k, h) == l \subseteq Items /\ h \subseteq l /\ k \in [Items -> Seq(Items)]

Apart(k) ==
    \A a, b \in Items : \A m \in 1..Len(k[a]), n \in 1..Len(k[b]) :
        k[a][m] = k[b][n] => a = b /\ m = n

NoChild(k, i) == \A a \in Items : i \notin Elements(k[a])

Inside(l, k) ==
    \A a \in Items : /\ a \notin l => k[a] = <<>>
                     /\ Elements(k[a]) \subseteq l

Reached(l, k, h) == \A j \in l : \E i \in h : j \in Tree(k, i)

IsForest(l, k, h) ==
    /\ Typed(l, k, h)
    /\ Apart(k)
    /\ \A i \in h : NoChild(k, i)
    /\ Inside(l, k)
    /\ Reached(l, k, h)

LEMMA ApartWithout ==
    ASSUME NEW k \in [Items -> Seq(Items)], Apart(k),
           NEW p \in Items, NEW c \in 1..Len(k[p])
    PROVE  LET k2 == [k EXCEPT ![p] = Without(@, c)]
           IN  /\ k2 \in [Items -> Seq(Items)]
               /\ Apart(k2)
               /\ NoChild(k2, k[p][c])
<1> DEFINE k2 == [k EXCEPT ![p] = Without(@, c)]
           f(a, m) == IF a = p THEN IF m < c THEN m ELSE m + 1 ELSE m
<1>1. k2 \in [Items -> Seq(Items)]
  BY WithoutList
<1>2. Len(k[p]) \in Nat
  BY LenProperties
<1>3. ASSUME NEW a \in Items, NEW m \in 1..Len(k2[a])
      PROVE  /\ f(a, m) \in 1..Len(k[a])
             /\ k2[a][m] = k[a][f(a, m)]
             /\ a = p => f(a, m) # c
  <2>1. CASE a # p
    <3>1. k2[a] = k[a]
      BY <2>1
    <3> QED
      BY <2>1, <3>1
  <2>2. CASE a = p
    <3>1. k2[a] = Without(k[p], c) /\ m \in 1..(Len(k[p]) - 1)
      BY <2>2, WithoutList
    <3>2. k2[a][m] = IF m < c THEN k[p][m] ELSE k[p][m + 1]
      BY <3>1, WithoutList
    <3> QED
      BY <1>2, <2>2, <3>1, <3>2
  <2> QED
    BY <2>1, <2>2
<1>4. Apart(k2)
  <2> SUFFICES ASSUME NEW a \in Items, NEW b \in Items,
                      NEW m \in 1..Len(k2[a]), NEW n \in 1..Len(k2[b]),
                      k2[a][m] = k2[b][n]
               PROVE  a = b /\ m = n
    BY DEF Apart
  <2> HIDE DEF k2
  <2>1. k[a][f(a, m)] = k[b][f(b, n)]
    BY <1>3
  <2>2. f(a, m) \in 1..Len(k[a]) /\ f(b, n) \in 1..Len(k[b])
    BY <1>3
  <2> HIDE DEF f
  <2>3. a = b /\ f(a, m) = f(b, n)
    BY <2>1, <2>2 DEF Apart
  <2>4. m \in Int /\ n \in Int
    OBVIOUS
  <2> QED
    BY <2>3, <2>4 DEF f
<1>5. NoChild(k2, k[p][c])
  <2> SUFFICES ASSUME NEW a \in Items, NEW m \in 1..Len(k2[a]), k2[a][m] = k[p][c]
               PROVE  FALSE
    BY DEF NoChild, Elements
  <2> HIDE DEF k2
  <2>1. f(a, m) \in 1..Len(k[a]) /\ k[a][f(a, m)] = k[p][c] /\ (a = p => f(a, m) # c)
    BY <1>3
  <2> HIDE DEF f
  <2> QED
    BY <2>1 DEF Apart
<1> QED
  BY <1>1, <1>4, <1>5

LEMMA ApartInserted ==
    ASSUME NEW k \in [Items -> Seq(Items)], Apart(k),
           NEW p \in Items, NEW c \in 1..(Len(k[p]) + 1),
           NEW i \in Items, NoChild(k, i)
    PROVE  LET k2 == [k EXCEPT ![p] = Inserted(@, c, i)]
           IN  k2 \in [Items -> Seq(Items)] /\ Apart(k2)
<1> DEFINE k2 == [k EXCEPT ![p] = Inserted(@, c, i)]
           f(a, m) == IF a = p THEN IF m < c THEN m ELSE m - 1 ELSE m
<1>1. ASSUME NEW s \in Seq(Items), NEW d \in 1..(Len(s) + 1)
      PROVE  \A n \in 1..(Len(s) + 1) :
                Inserted(s, d, i)[n] =
                    IF n < d THEN s[n] ELSE IF n = d THEN i ELSE s[n - 1]
  BY InsertedList
<1>2. k[p] \in Seq(Items)
  OBVIOUS
<1>3. \A n \in 1..(Len(k[p]) + 1) :
         Inserted(k[p], c, i)[n] =
             IF n < c THEN k[p][n] ELSE IF n = c THEN i ELSE k[p][n - 1]
  <2> HIDE DEF k2
  <2> QED
    BY <1>1, <1>2
<1>4. k2 \in [Items -> Seq(Items)]
  BY InsertedList
<1>5. Len(k[p]) \in Nat
  BY LenProperties
<1>6. ASSUME NEW a \in Items, NEW m \in 1..Len(k2[a])
      PROVE  IF a = p /\ m = c THEN k2[a][m] = i
             ELSE f(a, m) \in 1..Len(k[a]) /\ k2[a][m] = k[a][f(a, m)]
  <2>1. CASE a # p
    <3>1. k2[a] = k[a]
      BY <2>1
    <3> QED
      BY <2>1, <3>1
  <2>2. CASE a = p
    <3>1. k2[a] = Inserted(k[p], c, i) /\ m \in 1..(Len(k[p]) + 1)
      BY <2>2, InsertedList
    <3>2. Inserted(k[p], c, i)[m] =
              IF m < c THEN k[p][m] ELSE IF m = c THEN i ELSE k[p][m - 1]
      BY <1>3, <3>1
    <3>3. k2[a][m] = IF m < c THEN k[p][m] ELSE IF m = c THEN i ELSE k[p][m - 1]
      BY <3>1, <3>2
    <3> HIDE DEF k2
    <3> QED
      BY <1>5, <2>2, <3>1, <3>3
  <2> QED
    BY <2>1, <2>2
<1>7. ASSUME NEW a \in Items, NEW m \in 1..Len(k[a]) PROVE k[a][m] # i
  BY DEF NoChild, Elements
<1>8. Apart(k2)
  <2> SUFFICES ASSUME NEW a \in Items, NEW b \in Items,
                      NEW m \in 1..Len(k2[a]), NEW n \in 1..Len(k2[b]),
                      k2[a][m] = k2[b][n]
               PROVE  a = b /\ m = n
    BY DEF Apart
  <2> HIDE DEF k2
  <2>1. (a = p /\ m = c) <=> (b = p /\ n = c)
    <3> HIDE DEF f
    <3> QED
      BY <1>6, <1>7
  <2>2. CASE ~(a = p /\ m = c)
    <3>1. /\ k[a][f(a, m)] = k[b][f(b, n)]
          /\ f(a, m) \in 1..Len(k[a]) /\ f(b, n) \in 1..Len(k[b])
      <4> HIDE DEF f
      <4> QED
        BY <1>6, <2>1, <2>2
    <3>2. a = b /\ f(a, m) = f(b, n)
      <4> HIDE DEF f
      <4> QED
        BY <3>1 DEF Apart
    <3>3. m \in Int /\ n \in Int /\ c \in Int
      OBVIOUS
    <3> QED
      BY <2>1, <2>2, <3>2, <3>3
  <2> QED
    BY <2>1, <2>2
<1> QED
  BY <1>4, <1>8

(* What a tree reaches it has. *)
LEMMA TreeWithin ==
    ASSUME NEW k \in [Items -> Seq(Items)], NEW q \in Items, NEW i \in Tree(k, q)
    PROVE  Tree(k, i) \subseteq Tree(k, q)
<1>1. i \in Items /\ Tree(k, q) \in SUBSET Items
  BY TreeHasRoot
<1>2. Closed(k, Tree(k, q))
  BY TreeClosed DEF Closed
<1> QED
  BY <1>1, <1>2, TreeLeast

-----------------------------------------------------------------------------
LEMMA InsertForest ==
    ASSUME NEW l, NEW k, NEW h, IsForest(l, k, h),
           NEW i \in h, NEW p \in l, p \notin Tree(k, i),
           NEW c \in 1..(Len(k[p]) + 1)
    PROVE  IsForest(l, [k EXCEPT ![p] = Inserted(@, c, i)], h \ {i})
<1> DEFINE k2 == [k EXCEPT ![p] = Inserted(@, c, i)]
<1>1. /\ k \in [Items -> Seq(Items)] /\ l \subseteq Items /\ h \subseteq l
      /\ i \in Items /\ p \in Items /\ Apart(k) /\ NoChild(k, i)
  BY DEF IsForest, Typed
<1>2. k2 \in [Items -> Seq(Items)] /\ Apart(k2)
  BY <1>1, ApartInserted
<1>3. Elements(k2[p]) = Elements(k[p]) \cup {i}
  <2>1. k[p] \in Seq(Items) /\ k2[p] = Inserted(k[p], c, i)
    BY <1>1
  <2> QED
    BY <1>1, <2>1, InsertedElements
<1>4. \A a \in Items : a # p => k2[a] = k[a]
  BY <1>1
<1> HIDE DEF k2
<1>5. ASSUME NEW a \in Items
      PROVE  /\ Elements(k[a]) \subseteq Elements(k2[a])
             /\ Elements(k2[a]) \subseteq Elements(k[a]) \cup {i}
  BY <1>3, <1>4
<1>6. \A j \in h \ {i} : NoChild(k2, j)
  BY <1>5 DEF IsForest, NoChild
<1>7. Inside(l, k2)
  BY <1>1, <1>4, <1>5 DEF IsForest, Inside
<1>8. ASSUME NEW j \in l
      PROVE  \E q \in h \ {i} : j \in Tree(k2, q)
  <2>1. \A q \in Items : Tree(k, q) \subseteq Tree(k2, q)
    BY <1>1, <1>2, <1>5, TreeMonotonic
  <2>2. PICK r \in h : j \in Tree(k, r)
    BY DEF IsForest, Reached
  <2>3. CASE r # i
    BY <1>1, <2>1, <2>2, <2>3
  <2>4. CASE r = i
    <3>1. PICK q \in h : p \in Tree(k, q)
      BY DEF IsForest, Reached
    <3>2. q # i /\ q \in Items /\ p \in Tree(k2, q)
      BY <1>1, <2>1, <3>1
    <3>3. i \in Tree(k2, q)
      BY <1>2, <1>3, <3>2, TreeClosed
    <3>4. j \in Tree(k2, q)
      BY <1>1, <1>2, <2>1, <2>2, <2>4, <3>2, <3>3, TreeWithin
    <3> QED
      BY <3>2, <3>4
  <2> QED
    BY <2>3, <2>4
<1>9. IsForest(l, k2, h \ {i})
  BY <1>1, <1>2, <1>6, <1>7, <1>8 DEF IsForest, Typed, Reached
<1> QED
  BY <1>9 DEF k2

LEMMA DetachForest ==
    ASSUME NEW l, NEW k, NEW h, IsForest(l, k, h),
           NEW p \in l, NEW c \in 1..Len(k[p])
    PROVE  /\ IsForest(l, [k EXCEPT ![p] = Without(@, c)], h \cup {k[p][c]})
           /\ k[p][c] \in l \ h
<1> DEFINE k2 == [k EXCEPT ![p] = Without(@, c)]
           x == k[p][c]
<1>1. /\ k \in [Items -> Seq(Items)] /\ l \subseteq Items /\ h \subseteq l
      /\ p \in Items /\ Apart(k)
  BY DEF IsForest, Typed
<1>2. k2 \in [Items -> Seq(Items)] /\ Apart(k2) /\ NoChild(k2, x)
  BY <1>1, ApartWithout
<1>3. /\ Elements(k2[p]) \subseteq Elements(k[p])
      /\ Elements(k[p]) \subseteq Elements(k2[p]) \cup {x}
  <2>1. k[p] \in Seq(Items) /\ k2[p] = Without(k[p], c)
    BY <1>1
  <2> QED
    BY <2>1, WithoutElements
<1>4. \A a \in Items : a # p => k2[a] = k[a]
  BY <1>1
<1>5. x \in Elements(k[p])
  BY DEF Elements
<1> HIDE DEF k2, x
<1>6. x \in l \ h
  BY <1>1, <1>5 DEF IsForest, Inside, NoChild
<1>7. ASSUME NEW a \in Items
      PROVE  /\ Elements(k2[a]) \subseteq Elements(k[a])
             /\ Elements(k[a]) \subseteq Elements(k2[a]) \cup {x}
  BY <1>3, <1>4
<1>8. \A j \in h \cup {x} : NoChild(k2, j)
  BY <1>2, <1>7 DEF IsForest, NoChild
<1>9. Inside(l, k2)
  BY <1>1, <1>4, <1>7 DEF IsForest, Inside
<1>10. ASSUME NEW j \in l
       PROVE  \E q \in h \cup {x} : j \in Tree(k2, q)
  <2>1. PICK q \in h : j \in Tree(k, q)
    BY DEF IsForest, Reached
  <2> DEFINE U == Tree(k2, q) \cup Tree(k2, x)
  <2>2. q \in Items /\ x \in Items
    BY <1>1, <1>6
  <2>3. U \in SUBSET Items /\ q \in U /\ x \in U
    BY <2>2, TreeHasRoot
  <2>4. ASSUME NEW y \in U PROVE Elements(k[y]) \subseteq U
    <3>1. Elements(k2[y]) \subseteq U
      BY <1>2, <2>2, TreeClosed
    <3> QED
      BY <1>7, <2>3, <3>1
  <2>5. Closed(k, U)
    BY <2>4 DEF Closed
  <2>6. Tree(k, q) \subseteq U
    BY <2>2, <2>3, <2>5, TreeLeast
  <2> QED
    BY <2>1, <2>6
<1>11. IsForest(l, k2, h \cup {x})
  BY <1>1, <1>2, <1>6, <1>8, <1>9, <1>10 DEF IsForest, Typed, Reached
<1> QED
  BY <1>6, <1>11 DEF k2, x

LEMMA DeleteForest ==
    ASSUME NEW l, NEW k, NEW h, IsForest(l, k, h), NEW i \in h
    PROVE  IsForest(l \ Tree(k, i), Pruned(k, Tree(k, i)), h \ {i})
<1> DEFINE G == Tree(k, i)
           k2 == Pruned(k, G)
<1>1. /\ k \in [Items -> Seq(Items)] /\ l \subseteq Items /\ h \subseteq l
      /\ i \in Items /\ Apart(k) /\ NoChild(k, i)
  BY DEF IsForest, Typed
<1>2. G \subseteq Items /\ i \in G
  BY <1>1, TreeHasRoot
<1>3. \A y \in G : Elements(k[y]) \subseteq G
  BY <1>1, TreeClosed
<1>4. \A y \in G : y # i => \E z \in G : y \in Elements(k[z])
  BY <1>1, TreeParent
<1> HIDE DEF G
<1>5. /\ k2 \in [Items -> Seq(Items)]
      /\ \A a \in Items : k2[a] = IF a \in G THEN <<>> ELSE k[a]
  BY <1>1 DEF Pruned
<1> HIDE DEF k2
<1>6. Elements(<<>>) = {}
  BY DEF Elements
<1>7. \A a \in Items : Elements(k2[a]) \subseteq Elements(k[a])
  BY <1>5, <1>6
<1>8. Apart(k2)
  <2> SUFFICES ASSUME NEW a \in Items, NEW b \in Items,
                      NEW m \in 1..Len(k2[a]), NEW n \in 1..Len(k2[b]),
                      k2[a][m] = k2[b][n]
               PROVE  a = b /\ m = n
    BY DEF Apart
  <2>1. a \notin G /\ b \notin G
    BY <1>5
  <2> QED
    BY <1>1, <1>5, <2>1 DEF Apart
<1>9. ASSUME NEW r \in h \ {i} PROVE r \notin G /\ NoChild(k2, r)
  <2>1. NoChild(k, r)
    BY DEF IsForest
  <2> QED
    BY <1>2, <1>4, <1>7, <2>1 DEF NoChild
<1>10. ASSUME NEW a \in Items
       PROVE  /\ a \notin l \ G => k2[a] = <<>>
              /\ Elements(k2[a]) \subseteq l \ G
  <2>1. (a \notin l => k[a] = <<>>) /\ Elements(k[a]) \subseteq l
    BY DEF IsForest, Inside
  <2>2. CASE a \in G
    BY <1>5, <1>6, <2>2
  <2>3. CASE a \notin G
    <3>1. ASSUME NEW e \in Elements(k[a]), e \in G PROVE FALSE
      <4>1. PICK z \in G : e \in Elements(k[z])
        BY <1>1, <1>4, <3>1 DEF NoChild
      <4>2. z = a
        BY <1>1, <1>2, <4>1 DEF Apart, Elements
      <4> QED
        BY <2>3, <4>2
    <3> QED
      BY <1>5, <2>1, <2>3, <3>1
  <2> QED
    BY <2>2, <2>3
<1>11. ASSUME NEW j \in l \ G
       PROVE  \E q \in h \ {i} : j \in Tree(k2, q)
  <2>1. PICK q \in h : j \in Tree(k, q)
    BY DEF IsForest, Reached
  <2>2. q # i /\ q \in Items
    BY <1>1, <2>1 DEF G
  <2> DEFINE U == Tree(k2, q) \cup G
  <2>3. U \in SUBSET Items /\ q \in U
    BY <1>2, <2>2, TreeHasRoot
  <2>4. ASSUME NEW y \in U PROVE Elements(k[y]) \subseteq U
    <3>1. CASE y \in G
      BY <1>3, <3>1
    <3>2. CASE y \notin G
      <4>1. Elements(k2[y]) \subseteq U
        BY <1>5, <2>2, <3>2, TreeClosed
      <4> QED
        BY <1>5, <2>3, <3>2, <4>1
    <3> QED
      BY <3>1, <3>2
  <2>5. Closed(k, U)
    BY <2>4 DEF Closed
  <2>6. Tree(k, q) \subseteq U
    BY <2>2, <2>3, <2>5, TreeLeast
  <2> QED
    BY <2>1, <2>2, <2>6
<1>12. IsForest(l \ G, k2, h \ {i})
  BY <1>1, <1>5, <1>8, <1>9, <1>10, <1>11 DEF IsForest, Typed, Inside, Reached
<1> QED
  BY <1>12 DEF k2, G

LEMMA CreateForest ==
    ASSUME NEW l, NEW k, NEW h, IsForest(l, k, h),
           NEW N \in SUBSET Items, NEW i \in N, N \cap l = {},
           NEW k2 \in [Items -> Seq(Items)],
           \A a \in Items \ N : k2[a] = k[a],
           IsNewTree(N, k2, i)
    PROVE  IsForest(l \cup N, k2, h \cup {i})
<1>1. /\ k \in [Items -> Seq(Items)] /\ l \subseteq Items /\ h \subseteq l
      /\ i \in Items /\ Apart(k)
  BY DEF IsForest, Typed
<1>2. \A a \in N : Elements(k2[a]) \subseteq N \ {i}
  BY DEF IsNewTree
<1>3. \A a \in Items : /\ a \notin l => k[a] = <<>>
                       /\ Elements(k[a]) \subseteq l
  BY DEF IsForest, Inside
<1>4. \A a \in Items \ N : Elements(k2[a]) \subseteq l
  BY <1>3
<1>5. Elements(<<>>) = {}
  BY DEF Elements
<1>6. Apart(k2)
  <2> SUFFICES ASSUME NEW a \in Items, NEW b \in Items,
                      NEW m \in 1..Len(k2[a]), NEW n \in 1..Len(k2[b]),
                      k2[a][m] = k2[b][n]
               PROVE  a = b /\ m = n
    BY DEF Apart
  <2>1. CASE a \in N /\ b \in N
    BY <2>1 DEF IsNewTree
  <2>2. CASE a \notin N /\ b \notin N
    BY <1>1, <2>2 DEF Apart
  <2>3. k2[a][m] \in Elements(k2[a]) /\ k2[b][n] \in Elements(k2[b])
    BY DEF Elements
  <2>4. (a \in N) <=> (b \in N)
    BY <1>2, <1>4, <2>3
  <2> QED
    BY <2>1, <2>2, <2>4
<1>7. ASSUME NEW r \in h \cup {i} PROVE NoChild(k2, r)
  <2>1. CASE r = i
    BY <1>2, <1>4, <2>1 DEF NoChild
  <2>2. CASE r \in h
    BY <1>1, <1>2, <2>2 DEF IsForest, NoChild
  <2> QED
    BY <2>1, <2>2
<1>8. Inside(l \cup N, k2)
  BY <1>2, <1>3, <1>4 DEF Inside
<1>9. ASSUME NEW j \in l \cup N
      PROVE  \E q \in h \cup {i} : j \in Tree(k2, q)
  <2>1. CASE j \in N
    BY <2>1 DEF IsNewTree
  <2>2. CASE j \in l
    <3>1. PICK q \in h : j \in Tree(k, q)
      BY <2>2 DEF IsForest, Reached
    <3> DEFINE U == Tree(k2, q) \cup N
    <3>2. q \in Items /\ U \in SUBSET Items /\ q \in U
      BY <1>1, TreeHasRoot
    <3>3. ASSUME NEW y \in U PROVE Elements(k[y]) \subseteq U
      <4>1. CASE y \in N
        BY <1>3, <1>5, <4>1
      <4>2. CASE y \notin N
        <5>1. Elements(k2[y]) \subseteq U
          BY <3>2, <4>2, TreeClosed
        <5> QED
          BY <3>2, <4>2, <5>1
      <4> QED
        BY <4>1, <4>2
    <3>4. Closed(k, U)
      BY <3>3 DEF Closed
    <3>5. Tree(k, q) \subseteq U
      BY <3>2, <3>4, TreeLeast
    <3> QED
      BY <2>2, <3>1, <3>5
  <2> QED
    BY <2>1, <2>2
<1> QED
  BY <1>1, <1>6, <1>7, <1>8, <1>9 DEF IsForest, Typed, Reached

-----------------------------------------------------------------------------
(* The pointers of a list: what the n-th item of s, or for 0 what owns the    *)
(* list, has after it, and what the n-th has before it.                     *)
After(s, n)  == IF n < Len(s) THEN s[n + 1] ELSE NULL
Before(s, n) == IF n > 1 THEN s[n - 1] ELSE NULL

Pointers == Items \cup {NULL}

(* Pointers nx to the next, pv to the previous item and ch to the first child *)
(* link the lists k; an item in no list points nowhere, and a reference, of   *)
(* the set rf, owns no list.                                                *)
Linking(nx, pv, ch, rf, k) ==
    /\ NULL \notin Items
    /\ nx \in [Items -> Pointers] /\ pv \in [Items -> Pointers]
    /\ ch \in [Items -> Pointers]
    /\ k \in [Items -> Seq(Items)]
    /\ Apart(k)
    /\ \A p \in Items : IF p \in rf THEN k[p] = <<>> ELSE ch[p] = After(k[p], 0)
    /\ \A p \in Items : \A n \in 1..Len(k[p]) :
          nx[k[p][n]] = After(k[p], n) /\ pv[k[p][n]] = Before(k[p], n)
    /\ \A i \in Items : NoChild(k, i) => nx[i] = NULL /\ pv[i] = NULL

LEMMA WithoutLinks ==
    ASSUME NEW s \in Seq(Items), NEW c \in 1..Len(s)
    PROVE  LET t == Without(s, c)
           IN  /\ \A n \in 0..(Len(s) - 1) :
                     After(t, n) = IF n < c - 1 THEN After(s, n)
                                   ELSE IF n = c - 1 THEN After(s, c)
                                   ELSE After(s, n + 1)
               /\ \A n \in 1..(Len(s) - 1) :
                     Before(t, n) = IF n < c THEN Before(s, n)
                                    ELSE IF n = c THEN Before(s, c)
                                    ELSE Before(s, n + 1)
<1> DEFINE t == Without(s, c)
<1>1. /\ Len(s) \in Nat /\ Len(t) = Len(s) - 1
      /\ \A n \in 1..(Len(s) - 1) : t[n] = IF n < c THEN s[n] ELSE s[n + 1]
  BY WithoutList, LenProperties
<1> HIDE DEF t
<1>2. ASSUME NEW n \in 0..(Len(s) - 1)
      PROVE  After(t, n) = IF n < c - 1 THEN After(s, n)
                           ELSE IF n = c - 1 THEN After(s, c)
                           ELSE After(s, n + 1)
  <2>1. CASE n = Len(s) - 1
    BY <1>1, <2>1 DEF After
  <2>2. CASE n < Len(s) - 1
    <3>1. n + 1 \in 1..(Len(s) - 1)
      BY <1>1, <2>2
    <3>2. After(t, n) = IF n + 1 < c THEN s[n + 1] ELSE s[(n + 1) + 1]
      BY <1>1, <2>2, <3>1 DEF After
    <3> QED
      BY <1>1, <2>2, <3>2 DEF After
  <2> QED
    BY <1>1, <2>1, <2>2
<1>3. ASSUME NEW n \in 1..(Len(s) - 1)
      PROVE  Before(t, n) = IF n < c THEN Before(s, n)
                            ELSE IF n = c THEN Before(s, c)
                            ELSE Before(s, n + 1)
  <2>1. CASE n = 1
    BY <1>1, <2>1 DEF Before
  <2>2. CASE n > 1
    <3>1. n - 1 \in 1..(Len(s) - 1) /\ (n - 1) + 1 = n /\ (n + 1) - 1 = n
      BY <1>1, <2>2
    <3>2. Before(t, n) = IF n - 1 < c THEN s[n - 1] ELSE s[n]
      BY <1>1, <2>2, <3>1 DEF Before
    <3> QED
      BY <1>1, <2>2, <3>1, <3>2 DEF Before
  <2> QED
    BY <1>1, <2>1, <2>2
<1> QED
  BY <1>2, <1>3 DEF t

LEMMA InsertedLinks ==
    ASSUME NEW s \in Seq(Items), NEW c \in 1..(Len(s) + 1), NEW i \in Items
    PROVE  LET t == Inserted(s, c, i)
           IN  /\ \A n \in 0..(Len(s) + 1) :
                     After(t, n) = IF n < c - 1 THEN After(s, n)
                                   ELSE IF n = c - 1 THEN i
                                   ELSE After(s, n - 1)
               /\ \A n \in 1..(Len(s) + 1) :
                     Before(t, n) = IF n <= c THEN Before(s, n)
                                    ELSE IF n = c + 1 THEN i
                                    ELSE Before(s, n - 1)
<1> DEFINE t == Inserted(s, c, i)
<1>1. /\ Len(s) \in Nat /\ Len(t) = Len(s) + 1
      /\ \A n \in 1..(Len(s) + 1) :
            t[n] = IF n < c THEN s[n] ELSE IF n = c THEN i ELSE s[n - 1]
  BY InsertedList, LenProperties
<1> HIDE DEF t
<1>2. ASSUME NEW n \in 0..(Len(s) + 1)
      PROVE  After(t, n) = IF n < c - 1 THEN After(s, n)
                           ELSE IF n = c - 1 THEN i
                           ELSE After(s, n - 1)
  <2>1. CASE n = Len(s) + 1
    BY <1>1, <2>1 DEF After
  <2>2. CASE n < Len(s) + 1
    <3>1. n + 1 \in 1..(Len(s) + 1) /\ (n + 1) - 1 = n
      BY <1>1, <2>2
    <3>2. After(t, n) = IF n + 1 < c THEN s[n + 1] ELSE IF n + 1 = c THEN i ELSE s[n]
      BY <1>1, <2>2, <3>1 DEF After
    <3> QED
      BY <1>1, <2>2, <3>2 DEF After
  <2> QED
    BY <1>1, <2>1, <2>2
<1>3. ASSUME NEW n \in 1..(Len(s) + 1)
      PROVE  Before(t, n) = IF n <= c THEN Before(s, n)
                            ELSE IF n = c + 1 THEN i
                            ELSE Before(s, n - 1)
  <2>1. CASE n = 1
    BY <1>1, <2>1 DEF Before
  <2>2. CASE n > 1
    <3>1. n - 1 \in 1..(Len(s) + 1)
      BY <1>1, <2>2
    <3>2. Before(t, n) = IF n - 1 < c THEN s[n - 1]
                         ELSE IF n - 1 = c THEN i ELSE s[(n - 1) - 1]
      BY <1>1, <2>2, <3>1 DEF Before
    <3> QED
      BY <1>1, <2>2, <3>1, <3>2 DEF Before
  <2> QED
    BY <1>1, <2>1, <2>2
<1> QED
  BY <1>2, <1>3 DEF t

(* What a list has and where: no item is in it twice, or in another one. *)
LEMMA LinkingFacts ==
    ASSUME NEW nx, NEW pv, NEW ch, NEW rf, NEW k, Linking(nx, pv, ch, rf, k),
           NEW p \in Items, NEW n \in 1..Len(k[p])
    PROVE  /\ k[p] \in Seq(Items) /\ Len(k[p]) \in Nat /\ k[p][n] \in Items
           /\ p \notin rf
           /\ nx[k[p][n]] = After(k[p], n) /\ pv[k[p][n]] = Before(k[p], n)
           /\ \A q \in Items : \A m \in 1..Len(k[q]) :
                 k[q][m] = k[p][n] => q = p /\ m = n
<1>1. k[p] \in Seq(Items)
  BY DEF Linking
<1>2. Len(k[p]) \in Nat /\ k[p][n] \in Items
  BY <1>1, LenProperties
<1>3. p \notin rf
  <2> SUFFICES ASSUME p \in rf PROVE FALSE
    OBVIOUS
  <2>1. k[p] = <<>>
    BY DEF Linking
  <2>2. Len(k[p]) = 0
    BY <2>1
  <2> QED
    BY <2>2
<1>4. \A q \in Items : \A m \in 1..Len(k[q]) : k[q][m] = k[p][n] => q = p /\ m = n
  BY DEF Linking, Apart
<1> QED
  BY <1>1, <1>2, <1>3, <1>4 DEF Linking

(* An item leaves its list: those beside it, and the owner of the list if it *)
(* was the first, point past it, and it points nowhere.                     *)
LEMMA LinkingWithout ==
    ASSUME NEW nx, NEW pv, NEW ch, NEW rf, NEW k, Linking(nx, pv, ch, rf, k),
           NEW p \in Items, NEW c \in 1..Len(k[p]), NEW x, x = k[p][c],
           NEW nx2 \in [Items -> Pointers], NEW pv2 \in [Items -> Pointers],
           NEW ch2 \in [Items -> Pointers],
           \A j \in Items :
              nx2[j] = IF j = x THEN NULL ELSE IF j = pv[x] THEN nx[x] ELSE nx[j],
           \A j \in Items :
              pv2[j] = IF j = x THEN NULL ELSE IF j = nx[x] THEN pv[x] ELSE pv[j],
           \A j \in Items :
              ch2[j] = IF j = p /\ ch[p] = x THEN nx[x] ELSE ch[j]
    PROVE  Linking(nx2, pv2, ch2, rf, [k EXCEPT ![p] = Without(@, c)])
<1> DEFINE s  == k[p]
           t  == Without(s, c)
           k2 == [k EXCEPT ![p] = Without(@, c)]
<1>1. /\ s \in Seq(Items) /\ Len(s) \in Nat /\ x \in Items /\ p \notin rf
      /\ nx[x] = After(s, c) /\ pv[x] = Before(s, c)
  BY LinkingFacts
<1>2. /\ k \in [Items -> Seq(Items)] /\ Apart(k) /\ NULL \notin Items
      /\ \A q \in Items : IF q \in rf THEN k[q] = <<>> ELSE ch[q] = After(k[q], 0)
      /\ \A i \in Items : NoChild(k, i) => nx[i] = NULL /\ pv[i] = NULL
  BY DEF Linking
<1>3. k2 \in [Items -> Seq(Items)] /\ Apart(k2) /\ NoChild(k2, x)
  BY <1>2, ApartWithout
<1>4. k2[p] = t /\ \A q \in Items : q # p => k2[q] = k[q]
  BY <1>2
<1>5. /\ t \in Seq(Items) /\ Len(t) = Len(s) - 1
      /\ \A n \in 1..(Len(s) - 1) : t[n] = IF n < c THEN s[n] ELSE s[n + 1]
  BY <1>1, WithoutList
<1>6. /\ \A n \in 0..(Len(s) - 1) :
            After(t, n) = IF n < c - 1 THEN After(s, n)
                          ELSE IF n = c - 1 THEN After(s, c) ELSE After(s, n + 1)
      /\ \A n \in 1..(Len(s) - 1) :
            Before(t, n) = IF n < c THEN Before(s, n)
                           ELSE IF n = c THEN Before(s, c) ELSE Before(s, n + 1)
  BY <1>1, WithoutLinks
<1> HIDE DEF k2, t
<1>7. \A n \in 1..Len(s) : /\ s[n] \in Items
                           /\ nx[s[n]] = After(s, n) /\ pv[s[n]] = Before(s, n)
                           /\ \A m \in 1..Len(s) : s[m] = s[n] => m = n
  BY LinkingFacts
<1>8. \A q \in Items : \A n \in 1..Len(k[q]) :
          /\ k[q][n] \in Items
          /\ nx[k[q][n]] = After(k[q], n) /\ pv[k[q][n]] = Before(k[q], n)
          /\ q # p => \A m \in 1..Len(s) : k[q][n] # s[m]
  BY LinkingFacts
<1>9. ASSUME NEW q \in Items
      PROVE  IF q \in rf THEN k2[q] = <<>> ELSE ch2[q] = After(k2[q], 0)
  <2>1. CASE q # p
    BY <1>2, <1>4, <2>1
  <2>2. CASE q = p
    <3>1. ch[p] = s[1]
      BY <1>1, <1>2 DEF After
    <3>2. (ch[p] = x) <=> (c = 1)
      BY <1>1, <1>7, <3>1
    <3>3. After(t, 0) = IF c = 1 THEN After(s, c) ELSE After(s, 0)
      BY <1>1, <1>6
    <3>4. ch[p] = After(s, 0)
      BY <1>1, <1>2
    <3> QED
      BY <1>1, <1>4, <2>2, <3>2, <3>3, <3>4
  <2> QED
    BY <2>1, <2>2
<1>10. /\ \A n \in 1..Len(s) : (s[n] = Before(s, c)) <=> (n = c - 1)
       /\ \A n \in 1..Len(s) : (s[n] = After(s, c)) <=> (n = c + 1)
  <2>1. ASSUME NEW n \in 1..Len(s) PROVE (s[n] = Before(s, c)) <=> (n = c - 1)
    <3>1. CASE c = 1
      BY <1>1, <1>2, <1>7, <3>1 DEF Before
    <3>2. CASE c # 1
      <4>1. Before(s, c) = s[c - 1] /\ c - 1 \in 1..Len(s)
        BY <1>1, <3>2 DEF Before
      <4> QED
        BY <1>7, <4>1
    <3> QED
      BY <3>1, <3>2
  <2>2. ASSUME NEW n \in 1..Len(s) PROVE (s[n] = After(s, c)) <=> (n = c + 1)
    <3>1. CASE c = Len(s)
      BY <1>1, <1>2, <1>7, <3>1 DEF After
    <3>2. CASE c # Len(s)
      <4>1. After(s, c) = s[c + 1] /\ c + 1 \in 1..Len(s)
        BY <1>1, <3>2 DEF After
      <4> QED
        BY <1>7, <4>1
    <3> QED
      BY <3>1, <3>2
  <2> QED
    BY <2>1, <2>2
<1>11. \A n \in 1..Len(s) : n # c =>
          /\ nx2[s[n]] = IF n = c - 1 THEN After(s, c) ELSE After(s, n)
          /\ pv2[s[n]] = IF n = c + 1 THEN Before(s, c) ELSE Before(s, n)
  BY <1>1, <1>7, <1>10
<1>12. ASSUME NEW q \in Items, NEW n \in 1..Len(k2[q])
       PROVE  nx2[k2[q][n]] = After(k2[q], n) /\ pv2[k2[q][n]] = Before(k2[q], n)
  <2>1. CASE q # p
    <3>1. k2[q] = k[q] /\ n \in 1..Len(k[q])
      BY <1>4, <2>1
    <3>2. \A m \in 1..Len(s) : k[q][n] # s[m]
      BY <1>8, <2>1, <3>1
    <3>3. k[q][n] # x /\ k[q][n] # nx[x] /\ k[q][n] # pv[x]
      <4>1. k[q][n] # NULL
        BY <1>2, <1>8, <3>1
      <4>2. k[q][n] # After(s, c)
        BY <1>1, <3>2, <4>1 DEF After
      <4>3. k[q][n] # Before(s, c)
        BY <1>1, <3>2, <4>1 DEF Before
      <4> QED
        BY <1>1, <3>2, <4>2, <4>3
    <3> QED
      BY <1>8, <3>1, <3>3
  <2>2. CASE q = p
    <3>1. n \in 1..(Len(s) - 1) /\ k2[q] = t
      BY <1>4, <1>5, <2>2
    <3>2. CASE n < c
      <4>1. t[n] = s[n] /\ n \in 1..Len(s) /\ n # c /\ n # c + 1
        BY <1>1, <1>5, <3>1, <3>2
      <4>2. /\ nx2[t[n]] = IF n = c - 1 THEN After(s, c) ELSE After(s, n)
            /\ pv2[t[n]] = Before(s, n)
        BY <1>11, <4>1
      <4>3. After(t, n) = (IF n = c - 1 THEN After(s, c) ELSE After(s, n))
            /\ Before(t, n) = Before(s, n)
        BY <1>1, <1>6, <3>1, <3>2
      <4> QED
        BY <3>1, <4>2, <4>3
    <3>3. CASE ~(n < c)
      <4>1. t[n] = s[n + 1] /\ n + 1 \in 1..Len(s) /\ n + 1 # c /\ n + 1 # c - 1
            /\ (n + 1 = c + 1 <=> n = c)
        BY <1>1, <1>5, <3>1, <3>3
      <4>2. /\ nx2[t[n]] = After(s, n + 1)
            /\ pv2[t[n]] = IF n = c THEN Before(s, c) ELSE Before(s, n + 1)
        BY <1>11, <4>1
      <4>3. After(t, n) = After(s, n + 1)
            /\ Before(t, n) = (IF n = c THEN Before(s, c) ELSE Before(s, n + 1))
        BY <1>1, <1>6, <3>1, <3>3
      <4> QED
        BY <3>1, <4>2, <4>3
    <3> QED
      BY <3>2, <3>3
  <2> QED
    BY <2>1, <2>2
<1>13. ASSUME NEW i \in Items, NoChild(k2, i)
       PROVE  nx2[i] = NULL /\ pv2[i] = NULL
  <2>1. CASE i = x
    BY <2>1
  <2>2. CASE i # x
    <3>1. NoChild(k, i)
      <4> SUFFICES ASSUME NEW q \in Items, NEW m \in 1..Len(k[q]), k[q][m] = i
                   PROVE  FALSE
        BY DEF NoChild, Elements
      <4>1. CASE q # p
        BY <1>4, <1>13, <4>1 DEF NoChild, Elements
      <4>2. CASE q = p
        <5>1. Elements(s) \subseteq Elements(t) \cup {s[c]}
          BY <1>1, WithoutElements DEF t
        <5>2. i \in Elements(s)
          BY <4>2 DEF Elements
        <5>3. i \in Elements(k2[p])
          BY <1>4, <2>2, <5>1, <5>2
        <5> QED
          BY <1>13, <5>3 DEF NoChild
      <4> QED
        BY <4>1, <4>2
    <3>2. i # nx[x] /\ i # pv[x]
      <4>1. i # NULL /\ \A m \in 1..Len(s) : s[m] # i
        BY <1>2, <3>1 DEF NoChild, Elements
      <4>2. i # After(s, c)
        BY <1>1, <4>1 DEF After
      <4>3. i # Before(s, c)
        BY <1>1, <4>1 DEF Before
      <4> QED
        BY <1>1, <4>2, <4>3
    <3>3. nx2[i] = nx[i] /\ pv2[i] = pv[i]
      BY <2>2, <3>2
    <3>4. nx[i] = NULL /\ pv[i] = NULL
      BY <1>2, <3>1
    <3> QED
      BY <3>3, <3>4
  <2> QED
    BY <2>1, <2>2
<1>14. Linking(nx2, pv2, ch2, rf, k2)
  BY <1>2, <1>3, <1>9, <1>12, <1>13 DEF Linking
<1> QED
  BY <1>14 DEF k2

(* An item that is in no list is put into one: between what is before and    *)
(* what is behind its place, which point to it.                             *)
LEMMA LinkingInserted ==
    ASSUME NEW nx, NEW pv, NEW ch, NEW rf, NEW k, Linking(nx, pv, ch, rf, k),
           NEW p \in Items, p \notin rf, NEW c \in 1..(Len(k[p]) + 1),
           NEW i \in Items, NoChild(k, i),
           NEW nx2 \in [Items -> Pointers], NEW pv2 \in [Items -> Pointers],
           NEW ch2 \in [Items -> Pointers],
           \A j \in Items :
              nx2[j] = IF j = i THEN After(k[p], c - 1)
                       ELSE IF j = Before(k[p], c) THEN i ELSE nx[j],
           \A j \in Items :
              pv2[j] = IF j = i THEN Before(k[p], c)
                       ELSE IF j = After(k[p], c - 1) THEN i ELSE pv[j],
           \A j \in Items :
              ch2[j] = IF j = p /\ c = 1 THEN i ELSE ch[j]
    PROVE  Linking(nx2, pv2, ch2, rf, [k EXCEPT ![p] = Inserted(@, c, i)])
<1> DEFINE s  == k[p]
           t  == Inserted(s, c, i)
           k2 == [k EXCEPT ![p] = Inserted(@, c, i)]
<1>2. /\ k \in [Items -> Seq(Items)] /\ Apart(k) /\ NULL \notin Items
      /\ \A q \in Items : IF q \in rf THEN k[q] = <<>> ELSE ch[q] = After(k[q], 0)
      /\ \A j \in Items : NoChild(k, j) => nx[j] = NULL /\ pv[j] = NULL
  BY DEF Linking
<1>1. s \in Seq(Items) /\ Len(s) \in Nat
  BY <1>2, LenProperties
<1>3. k2 \in [Items -> Seq(Items)] /\ Apart(k2)
  BY <1>2, ApartInserted
<1>4. k2[p] = t /\ \A q \in Items : q # p => k2[q] = k[q]
  BY <1>2
<1>5. /\ t \in Seq(Items) /\ Len(t) = Len(s) + 1
      /\ \A n \in 1..(Len(s) + 1) :
            t[n] = IF n < c THEN s[n] ELSE IF n = c THEN i ELSE s[n - 1]
  <2> HIDE DEF s, k2
  <2>1. /\ Inserted(s, c, i) \in Seq(Items)
        /\ Len(Inserted(s, c, i)) = Len(s) + 1
        /\ \A n \in 1..(Len(s) + 1) :
              Inserted(s, c, i)[n] =
                  IF n < c THEN s[n] ELSE IF n = c THEN i ELSE s[n - 1]
    <3>1. c \in 1..(Len(s) + 1)
      BY DEF s
    <3> HIDE DEF t
    <3> QED
      BY <1>1, <3>1, InsertedList
  <2> QED
    BY <2>1
<1>6. /\ \A n \in 0..(Len(s) + 1) :
            After(t, n) = IF n < c - 1 THEN After(s, n)
                          ELSE IF n = c - 1 THEN i ELSE After(s, n - 1)
      /\ \A n \in 1..(Len(s) + 1) :
            Before(t, n) = IF n <= c THEN Before(s, n)
                           ELSE IF n = c + 1 THEN i ELSE Before(s, n - 1)
  BY <1>1, InsertedLinks
<1>15. Elements(t) = Elements(s) \cup {i}
  BY <1>1, InsertedElements
<1> HIDE DEF k2, t
<1>7. \A n \in 1..Len(s) : /\ s[n] \in Items /\ s[n] # i
                           /\ nx[s[n]] = After(s, n) /\ pv[s[n]] = Before(s, n)
                           /\ \A m \in 1..Len(s) : s[m] = s[n] => m = n
  BY LinkingFacts DEF NoChild, Elements
<1>8. \A q \in Items : \A n \in 1..Len(k[q]) :
          /\ k[q][n] \in Items /\ k[q][n] # i
          /\ nx[k[q][n]] = After(k[q], n) /\ pv[k[q][n]] = Before(k[q], n)
          /\ q # p => \A m \in 1..Len(s) : k[q][n] # s[m]
  BY LinkingFacts DEF NoChild, Elements
<1>9. ASSUME NEW q \in Items
      PROVE  IF q \in rf THEN k2[q] = <<>> ELSE ch2[q] = After(k2[q], 0)
  <2>1. CASE q # p
    BY <1>2, <1>4, <2>1
  <2>2. CASE q = p
    <3>1. After(t, 0) = IF c = 1 THEN i ELSE After(s, 0)
      BY <1>1, <1>6
    <3>2. ch[p] = After(s, 0)
      BY <1>2
    <3> QED
      BY <1>4, <2>2, <3>1, <3>2
  <2> QED
    BY <2>1, <2>2
<1>10. /\ \A n \in 1..Len(s) : (s[n] = Before(s, c)) <=> (n = c - 1)
       /\ \A n \in 1..Len(s) : (s[n] = After(s, c - 1)) <=> (n = c)
  <2>1. ASSUME NEW n \in 1..Len(s) PROVE (s[n] = Before(s, c)) <=> (n = c - 1)
    <3>1. CASE c = 1
      BY <1>1, <1>2, <1>7, <3>1 DEF Before
    <3>2. CASE c # 1
      <4>1. Before(s, c) = s[c - 1] /\ c - 1 \in 1..Len(s)
        BY <1>1, <3>2 DEF Before
      <4> QED
        BY <1>7, <4>1
    <3> QED
      BY <3>1, <3>2
  <2>2. ASSUME NEW n \in 1..Len(s) PROVE (s[n] = After(s, c - 1)) <=> (n = c)
    <3>1. CASE c = Len(s) + 1
      BY <1>1, <1>2, <1>7, <3>1 DEF After
    <3>2. CASE c # Len(s) + 1
      <4>1. c \in 1..Len(s) /\ (c - 1) + 1 = c /\ c - 1 < Len(s)
        BY <1>1, <3>2
      <4>2. After(s, c - 1) = s[c]
        BY <4>1 DEF After
      <4> QED
        BY <1>7, <4>1, <4>2
    <3> QED
      BY <3>1, <3>2
  <2> QED
    BY <2>1, <2>2
<1>11. \A n \in 1..Len(s) :
          /\ nx2[s[n]] = IF n = c - 1 THEN i ELSE After(s, n)
          /\ pv2[s[n]] = IF n = c THEN i ELSE Before(s, n)
  BY <1>1, <1>7, <1>10
<1>12. ASSUME NEW q \in Items, NEW n \in 1..Len(k2[q])
       PROVE  nx2[k2[q][n]] = After(k2[q], n) /\ pv2[k2[q][n]] = Before(k2[q], n)
  <2>1. CASE q # p
    <3>1. k2[q] = k[q] /\ n \in 1..Len(k[q])
      BY <1>4, <2>1
    <3>2. \A m \in 1..Len(s) : k[q][n] # s[m]
      BY <1>8, <2>1, <3>1
    <3>3. k[q][n] # NULL
      BY <1>2, <1>8, <3>1
    <3>4. k[q][n] # After(s, c - 1)
      <4>1. c - 1 < Len(s) => (c - 1) + 1 \in 1..Len(s)
        BY <1>1
      <4> QED
        BY <3>2, <3>3, <4>1 DEF After
    <3>5. k[q][n] # Before(s, c)
      <4>1. c > 1 => c - 1 \in 1..Len(s)
        BY <1>1
      <4> QED
        BY <3>2, <3>3, <4>1 DEF Before
    <3> QED
      BY <1>8, <3>1, <3>4, <3>5
  <2>2. CASE q = p
    <3>1. n \in 1..(Len(s) + 1) /\ k2[q] = t
      BY <1>4, <1>5, <2>2
    <3>2. CASE n < c
      <4>1. t[n] = s[n] /\ n \in 1..Len(s) /\ n # c
        BY <1>1, <1>5, <3>1, <3>2
      <4>2. /\ nx2[t[n]] = IF n = c - 1 THEN i ELSE After(s, n)
            /\ pv2[t[n]] = Before(s, n)
        BY <1>11, <4>1
      <4>3. After(t, n) = (IF n = c - 1 THEN i ELSE After(s, n))
            /\ Before(t, n) = Before(s, n)
        BY <1>1, <1>6, <3>1, <3>2
      <4> QED
        BY <3>1, <4>2, <4>3
    <3>3. CASE n = c
      <4>1. t[n] = i
        BY <1>5, <3>1, <3>3
      <4>2. After(t, n) = After(s, c - 1) /\ Before(t, n) = Before(s, c)
        BY <1>1, <1>6, <3>1, <3>3
      <4> QED
        BY <3>1, <4>1, <4>2
    <3>4. CASE n > c
      <4>1. t[n] = s[n - 1] /\ n - 1 \in 1..Len(s) /\ n - 1 # c - 1
            /\ (n - 1 = c <=> n = c + 1)
        BY <1>1, <1>5, <3>1, <3>4
      <4>2. /\ nx2[t[n]] = After(s, n - 1)
            /\ pv2[t[n]] = IF n = c + 1 THEN i ELSE Before(s, n - 1)
        BY <1>11, <4>1
      <4>3. After(t, n) = After(s, n - 1)
            /\ Before(t, n) = (IF n = c + 1 THEN i ELSE Before(s, n - 1))
        BY <1>1, <1>6, <3>1, <3>4
      <4> QED
        BY <3>1, <4>2, <4>3
    <3> QED
      BY <3>1, <3>2, <3>3, <3>4
  <2> QED
    BY <2>1, <2>2
<1>13. ASSUME NEW j \in Items, NoChild(k2, j)
       PROVE  nx2[j] = NULL /\ pv2[j] = NULL
  <2>1. j # i /\ j \notin Elements(s)
    BY <1>4, <1>13, <1>15 DEF NoChild
  <2>2. NoChild(k, j)
    BY <1>4, <1>13, <2>1 DEF NoChild
  <2>3. j # NULL /\ \A m \in 1..Len(s) : s[m] # j
    BY <1>2, <2>1 DEF Elements
  <2>4. j # After(s, c - 1)
    <3>1. c - 1 < Len(s) => (c - 1) + 1 \in 1..Len(s)
      BY <1>1
    <3> QED
      BY <2>3, <3>1 DEF After
  <2>5. j # Before(s, c)
    <3>1. c > 1 => c - 1 \in 1..Len(s)
      BY <1>1
    <3> QED
      BY <2>3, <3>1 DEF Before
  <2>6. nx2[j] = nx[j] /\ pv2[j] = pv[j]
    BY <2>1, <2>4, <2>5
  <2>7. nx[j] = NULL /\ pv[j] = NULL
    BY <1>2, <2>2
  <2> QED
    BY <2>6, <2>7
<1>14. Linking(nx2, pv2, ch2, rf, k2)
  BY <1>2, <1>3, <1>9, <1>12, <1>13 DEF Linking
<1> QED
  BY <1>14 DEF k2

-----------------------------------------------------------------------------
(* The heaps with items of the types K and names of N.  What a heap shows of  *)
(* its pointers; and that nothing but pointers differs between two of them.   *)
Cells(K, N) ==
    [type : K, isRef : BOOLEAN, text : BOOLEAN, name : N, constName : BOOLEAN,
     next : Pointers, prev : Pointers, child : Pointers]

Heaps(K, N) == [at : [Items -> Cells(K, N)], live : Int, allocs : Int]

Nexts(h)  == [j \in Items |-> h.at[j].next]
Prevs(h)  == [j \in Items |-> h.at[j].prev]
Firsts(h) == [j \in Items |-> h.at[j].child]
Refs(h)   == {j \in Items : h.at[j].isRef}

Shows(h, k) == Linking(Nexts(h), Prevs(h), Firsts(h), Refs(h), k)

OnlyLinks(h2, h) ==
    /\ h2.live = h.live /\ h2.allocs = h.allocs
    /\ \A j \in Items : /\ h2.at[j].type = h.at[j].type
                        /\ h2.at[j].isRef = h.at[j].isRef
                        /\ h2.at[j].text = h.at[j].text
                        /\ h2.at[j].name = h.at[j].name
                        /\ h2.at[j].constName = h.at[j].constName

(* From h to h2 nothing but pointers changed, and of the lists only that of p. *)
Relinked(h, k, h2, k2, p) ==
    /\ OnlyLinks(h2, h)
    /\ \A j \in Items : j # p => Firsts(h2)[j] = Firsts(h)[j] /\ k2[j] = k[j]

LEMMA ListRelinked ==
    ASSUME NEW h, NEW h2, NEW k, Shows(h, k), NEW p, NEW s, OnlyLinks(h2, h),
           \A j \in Items : j # p => Firsts(h2)[j] = Firsts(h)[j]
    PROVE  Relinked(h, k, h2, [k EXCEPT ![p] = s], p)
<1>1. k \in [Items -> Seq(Items)]
  BY DEF Shows, Linking
<1>2. \A j \in Items : j # p => [k EXCEPT ![p] = s][j] = k[j]
  BY <1>1
<1> QED
  BY <1>2 DEF Relinked

LEMMA OnlyLinksTwice ==
    ASSUME NEW h, NEW h2, NEW h3, OnlyLinks(h2, h), OnlyLinks(h3, h2)
    PROVE  OnlyLinks(h3, h)
BY DEF OnlyLinks

LEMMA SameRefs ==
    ASSUME NEW h, NEW h2, OnlyLinks(h2, h)
    PROVE  Refs(h2) = Refs(h)
BY DEF OnlyLinks, Refs

LEMMA PointerViews ==
    ASSUME NEW K, NEW N, NEW h \in Heaps(K, N)
    PROVE  /\ Nexts(h) \in [Items -> Pointers] /\ Prevs(h) \in [Items -> Pointers]
           /\ Firsts(h) \in [Items -> Pointers]
           /\ \A j \in Items : /\ Nexts(h)[j] = h.at[j].next
                               /\ Prevs(h)[j] = h.at[j].prev
                               /\ Firsts(h)[j] = h.at[j].child
BY DEF Heaps, Cells, Nexts, Prevs, Firsts

LEMMA NextSet ==
    ASSUME NEW K, NEW N, NEW h \in Heaps(K, N), NEW i \in Items, NEW to \in Pointers
    PROVE  LET h2 == SetNext(h, i, to)
           IN  /\ h2 \in Heaps(K, N) /\ OnlyLinks(h2, h)
               /\ Nexts(h2) = [Nexts(h) EXCEPT ![i] = to]
               /\ Prevs(h2) = Prevs(h) /\ Firsts(h2) = Firsts(h)
<1> DEFINE cell == [h.at[i] EXCEPT !.next = to]
           h2 == SetNext(h, i, to)
<1>1. h.at[i] \in Cells(K, N)
  BY DEF Heaps
<1>2. /\ cell \in Cells(K, N) /\ cell.next = to
      /\ cell.prev = h.at[i].prev /\ cell.child = h.at[i].child
      /\ cell.type = h.at[i].type /\ cell.isRef = h.at[i].isRef
      /\ cell.text = h.at[i].text /\ cell.name = h.at[i].name
      /\ cell.constName = h.at[i].constName
  BY <1>1 DEF Cells
<1>3. h2 = [h EXCEPT !.at[i] = cell]
  BY DEF SetNext
<1> HIDE DEF cell, h2
<1>4. /\ h2 \in Heaps(K, N) /\ h2.live = h.live /\ h2.allocs = h.allocs
      /\ h2.at[i] = cell /\ \A j \in Items : j # i => h2.at[j] = h.at[j]
  BY <1>2, <1>3 DEF Heaps
<1>5. OnlyLinks(h2, h)
  BY <1>2, <1>4 DEF OnlyLinks
<1>6. /\ Nexts(h2) = [Nexts(h) EXCEPT ![i] = to]
      /\ Prevs(h2) = Prevs(h) /\ Firsts(h2) = Firsts(h)
  BY <1>2, <1>4 DEF Nexts, Prevs, Firsts
<1> QED
  BY <1>4, <1>5, <1>6 DEF h2

LEMMA PrevSet ==
    ASSUME NEW K, NEW N, NEW h \in Heaps(K, N), NEW i \in Items, NEW to \in Pointers
    PROVE  LET h2 == SetPrev(h, i, to)
           IN  /\ h2 \in Heaps(K, N) /\ OnlyLinks(h2, h)
               /\ Prevs(h2) = [Prevs(h) EXCEPT ![i] = to]
               /\ Nexts(h2) = Nexts(h) /\ Firsts(h2) = Firsts(h)
<1> DEFINE cell == [h.at[i] EXCEPT !.prev = to]
           h2 == SetPrev(h, i, to)
<1>1. h.at[i] \in Cells(K, N)
  BY DEF Heaps
<1>2. /\ cell \in Cells(K, N) /\ cell.prev = to
      /\ cell.next = h.at[i].next /\ cell.child = h.at[i].child
      /\ cell.type = h.at[i].type /\ cell.isRef = h.at[i].isRef
      /\ cell.text = h.at[i].text /\ cell.name = h.at[i].name
      /\ cell.constName = h.at[i].constName
  BY <1>1 DEF Cells
<1>3. h2 = [h EXCEPT !.at[i] = cell]
  BY DEF SetPrev
<1> HIDE DEF cell, h2
<1>4. /\ h2 \in Heaps(K, N) /\ h2.live = h.live /\ h2.allocs = h.allocs
      /\ h2.at[i] = cell /\ \A j \in Items : j # i => h2.at[j] = h.at[j]
  BY <1>2, <1>3 DEF Heaps
<1>5. OnlyLinks(h2, h)
  BY <1>2, <1>4 DEF OnlyLinks
<1>6. /\ Prevs(h2) = [Prevs(h) EXCEPT ![i] = to]
      /\ Nexts(h2) = Nexts(h) /\ Firsts(h2) = Firsts(h)
  BY <1>2, <1>4 DEF Nexts, Prevs, Firsts
<1> QED
  BY <1>4, <1>5, <1>6 DEF h2

LEMMA ChildSet ==
    ASSUME NEW K, NEW N, NEW h \in Heaps(K, N), NEW i \in Items, NEW to \in Pointers
    PROVE  LET h2 == SetChild(h, i, to)
           IN  /\ h2 \in Heaps(K, N) /\ OnlyLinks(h2, h)
               /\ Firsts(h2) = [Firsts(h) EXCEPT ![i] = to]
               /\ Nexts(h2) = Nexts(h) /\ Prevs(h2) = Prevs(h)
<1> DEFINE cell == [h.at[i] EXCEPT !.child = to]
           h2 == SetChild(h, i, to)
<1>1. h.at[i] \in Cells(K, N)
  BY DEF Heaps
<1>2. /\ cell \in Cells(K, N) /\ cell.child = to
      /\ cell.next = h.at[i].next /\ cell.prev = h.at[i].prev
      /\ cell.type = h.at[i].type /\ cell.isRef = h.at[i].isRef
      /\ cell.text = h.at[i].text /\ cell.name = h.at[i].name
      /\ cell.constName = h.at[i].constName
  BY <1>1 DEF Cells
<1>3. h2 = [h EXCEPT !.at[i] = cell]
  BY DEF SetChild
<1> HIDE DEF cell, h2
<1>4. /\ h2 \in Heaps(K, N) /\ h2.live = h.live /\ h2.allocs = h.allocs
      /\ h2.at[i] = cell /\ \A j \in Items : j # i => h2.at[j] = h.at[j]
  BY <1>2, <1>3 DEF Heaps
<1>5. OnlyLinks(h2, h)
  BY <1>2, <1>4 DEF OnlyLinks
<1>6. /\ Firsts(h2) = [Firsts(h) EXCEPT ![i] = to]
      /\ Nexts(h2) = Nexts(h) /\ Prevs(h2) = Prevs(h)
  BY <1>2, <1>4 DEF Nexts, Prevs, Firsts
<1> QED
  BY <1>4, <1>5, <1>6 DEF h2

(* What Repointed makes of the pointers. *)
IsRepointed(h2, h, p, i, forward, back) ==
    /\ OnlyLinks(h2, h)
    /\ \A j \in Items :
          Nexts(h2)[j] = IF j = Prevs(h)[i] THEN forward ELSE Nexts(h)[j]
    /\ \A j \in Items :
          Prevs(h2)[j] = IF j = Nexts(h)[i] THEN back ELSE Prevs(h)[j]
    /\ \A j \in Items :
          Firsts(h2)[j] = IF j = p /\ Firsts(h)[p] = i THEN forward ELSE Firsts(h)[j]

LEMMA RepointedLinks ==
    ASSUME NULL \notin Items,
           NEW K, NEW N, NEW h \in Heaps(K, N), NEW p \in Items, NEW i \in Items,
           NEW forward \in Pointers, NEW back \in Pointers
    PROVE  /\ Repointed(h, p, i, forward, back) \in Heaps(K, N)
           /\ IsRepointed(Repointed(h, p, i, forward, back), h, p, i, forward, back)
<1> DEFINE it     == h.at[i]
           before == IF it.prev = NULL THEN h ELSE SetNext(h, it.prev, forward)
           both   == IF it.next = NULL THEN before ELSE SetPrev(before, it.next, back)
           h2     == IF h.at[p].child = i THEN SetChild(both, p, forward) ELSE both
<1>1. /\ Nexts(h) \in [Items -> Pointers] /\ Prevs(h) \in [Items -> Pointers]
      /\ Firsts(h) \in [Items -> Pointers]
      /\ it.next = Nexts(h)[i] /\ it.prev = Prevs(h)[i] /\ h.at[p].child = Firsts(h)[p]
      /\ it.next \in Pointers /\ it.prev \in Pointers
  BY PointerViews
<1>2. OnlyLinks(h, h)
  BY DEF OnlyLinks
<1> HIDE DEF it
<1>3. /\ before \in Heaps(K, N) /\ OnlyLinks(before, h)
      /\ \A j \in Items :
            Nexts(before)[j] = IF j = Prevs(h)[i] THEN forward ELSE Nexts(h)[j]
      /\ Prevs(before) = Prevs(h) /\ Firsts(before) = Firsts(h)
  <2>1. CASE it.prev = NULL
    BY <1>1, <1>2, <2>1
  <2>2. CASE it.prev # NULL
    <3>1. PICK a \in Items : a = it.prev
      BY <1>1, <2>2 DEF Pointers
    <3>2. /\ SetNext(h, a, forward) \in Heaps(K, N)
          /\ OnlyLinks(SetNext(h, a, forward), h)
          /\ Nexts(SetNext(h, a, forward)) = [Nexts(h) EXCEPT ![a] = forward]
          /\ Prevs(SetNext(h, a, forward)) = Prevs(h)
          /\ Firsts(SetNext(h, a, forward)) = Firsts(h)
      BY NextSet
    <3>3. before = SetNext(h, a, forward)
      BY <2>2, <3>1
    <3> QED
      BY <1>1, <3>1, <3>2, <3>3
  <2> QED
    BY <2>1, <2>2
<1> HIDE DEF before
<1>4. Nexts(before) \in [Items -> Pointers] /\ Prevs(before) \in [Items -> Pointers]
  BY <1>3, PointerViews
<1>5. /\ both \in Heaps(K, N) /\ OnlyLinks(both, h)
      /\ \A j \in Items :
            Prevs(both)[j] = IF j = Nexts(h)[i] THEN back ELSE Prevs(h)[j]
      /\ Nexts(both) = Nexts(before) /\ Firsts(both) = Firsts(h)
  <2>1. CASE it.next = NULL
    BY <1>1, <1>3, <2>1
  <2>2. CASE it.next # NULL
    <3>1. PICK a \in Items : a = it.next
      BY <1>1, <2>2 DEF Pointers
    <3>2. /\ SetPrev(before, a, back) \in Heaps(K, N)
          /\ OnlyLinks(SetPrev(before, a, back), before)
          /\ Prevs(SetPrev(before, a, back)) = [Prevs(before) EXCEPT ![a] = back]
          /\ Nexts(SetPrev(before, a, back)) = Nexts(before)
          /\ Firsts(SetPrev(before, a, back)) = Firsts(before)
      BY <1>3, PrevSet
    <3>3. both = SetPrev(before, a, back)
      BY <2>2, <3>1
    <3>4. OnlyLinks(both, h)
      BY <1>3, <3>2, <3>3, OnlyLinksTwice
    <3> HIDE DEF both
    <3> QED
      BY <1>1, <1>3, <1>4, <3>1, <3>2, <3>3, <3>4
  <2> QED
    BY <2>1, <2>2
<1> HIDE DEF both
<1>6. Firsts(both) \in [Items -> Pointers]
  BY <1>5, PointerViews
<1>7. /\ h2 \in Heaps(K, N) /\ OnlyLinks(h2, h)
      /\ \A j \in Items :
            Firsts(h2)[j] = IF j = p /\ Firsts(h)[p] = i THEN forward ELSE Firsts(h)[j]
      /\ Nexts(h2) = Nexts(both) /\ Prevs(h2) = Prevs(both)
  <2>1. CASE Firsts(h)[p] # i
    BY <1>1, <1>5, <2>1
  <2>2. CASE Firsts(h)[p] = i
    <3>2. /\ SetChild(both, p, forward) \in Heaps(K, N)
          /\ OnlyLinks(SetChild(both, p, forward), both)
          /\ Firsts(SetChild(both, p, forward)) = [Firsts(both) EXCEPT ![p] = forward]
          /\ Nexts(SetChild(both, p, forward)) = Nexts(both)
          /\ Prevs(SetChild(both, p, forward)) = Prevs(both)
      BY <1>5, ChildSet
    <3>3. h2 = SetChild(both, p, forward)
      BY <1>1, <2>2
    <3>4. OnlyLinks(h2, h)
      BY <1>5, <3>2, <3>3, OnlyLinksTwice
    <3> HIDE DEF h2
    <3> QED
      BY <1>5, <1>6, <2>2, <3>2, <3>3, <3>4
  <2> QED
    BY <2>1, <2>2
<1>8. h2 = Repointed(h, p, i, forward, back)
  BY DEF Repointed, it, before, both
<1> HIDE DEF h2
<1>9. IsRepointed(h2, h, p, i, forward, back)
  BY <1>3, <1>5, <1>7 DEF IsRepointed
<1> QED
  BY <1>7, <1>8, <1>9

LEMMA AloneLinks ==
    ASSUME NULL \notin Items,
           NEW K, NEW N, NEW h \in Heaps(K, N), NEW i \in Items
    PROVE  LET h2 == Alone(h, i)
           IN  /\ h2 \in Heaps(K, N) /\ OnlyLinks(h2, h)
               /\ \A j \in Items : Nexts(h2)[j] = IF j = i THEN NULL ELSE Nexts(h)[j]
               /\ \A j \in Items : Prevs(h2)[j] = IF j = i THEN NULL ELSE Prevs(h)[j]
               /\ Firsts(h2) = Firsts(h)
<1> DEFINE h1 == SetPrev(h, i, NULL)
           h2 == SetNext(h1, i, NULL)
<1>1. NULL \in Pointers
  BY DEF Pointers
<1>2. /\ h1 \in Heaps(K, N) /\ OnlyLinks(h1, h)
      /\ Prevs(h1) = [Prevs(h) EXCEPT ![i] = NULL]
      /\ Nexts(h1) = Nexts(h) /\ Firsts(h1) = Firsts(h)
  BY <1>1, PrevSet
<1> HIDE DEF h1
<1>3. /\ h2 \in Heaps(K, N) /\ OnlyLinks(h2, h1)
      /\ Nexts(h2) = [Nexts(h1) EXCEPT ![i] = NULL]
      /\ Prevs(h2) = Prevs(h1) /\ Firsts(h2) = Firsts(h1)
  BY <1>1, <1>2, NextSet
<1>4. Nexts(h) \in [Items -> Pointers] /\ Prevs(h) \in [Items -> Pointers]
  BY PointerViews
<1>5. Alone(h, i) = h2
  BY DEF Alone, h1
<1> HIDE DEF h2
<1>6. OnlyLinks(h2, h)
  BY <1>2, <1>3, OnlyLinksTwice
<1> QED
  BY <1>2, <1>3, <1>4, <1>5, <1>6

(* Detaching takes the item out of its list, and does nothing else. *)
THEOREM DetachImplemented ==
    ASSUME NEW K, NEW N, NEW h \in Heaps(K, N), NEW k, Shows(h, k),
           NEW p \in Items, NEW c \in 1..Len(k[p])
    PROVE  LET h2 == cJSON_DetachItemViaPointer(h, p, k[p][c])
               k2 == [k EXCEPT ![p] = Without(@, c)]
           IN  h2 \in Heaps(K, N) /\ Relinked(h, k, h2, k2, p) /\ Shows(h2, k2)
<1> DEFINE x  == k[p][c]
           forward == h.at[x].next
           back == h.at[x].prev
           h1 == Repointed(h, p, x, forward, back)
           h2 == Alone(h1, x)
<1>1. Linking(Nexts(h), Prevs(h), Firsts(h), Refs(h), k) /\ NULL \notin Items
  BY DEF Shows, Linking
<1>2. x \in Items
  BY <1>1, LinkingFacts
<1> HIDE DEF x
<1>3. forward = Nexts(h)[x] /\ back = Prevs(h)[x]
  BY <1>2, PointerViews
<1>13. forward \in Pointers /\ back \in Pointers
  BY <1>2, <1>3, PointerViews
<1>14. NULL \notin Items
  BY <1>1
<1> HIDE DEF forward, back
<1>4. /\ h1 \in Heaps(K, N) /\ OnlyLinks(h1, h)
      /\ \A j \in Items : Nexts(h1)[j] = IF j = Prevs(h)[x] THEN forward ELSE Nexts(h)[j]
      /\ \A j \in Items : Prevs(h1)[j] = IF j = Nexts(h)[x] THEN back ELSE Prevs(h)[j]
      /\ \A j \in Items : Firsts(h1)[j] = IF j = p /\ Firsts(h)[p] = x THEN forward
                                          ELSE Firsts(h)[j]
  <2>1. h1 \in Heaps(K, N) /\ IsRepointed(h1, h, p, x, forward, back)
    BY <1>2, <1>13, <1>14, RepointedLinks
  <2> QED
    BY <2>1 DEF IsRepointed
<1> HIDE DEF h1
<1>5. /\ h2 \in Heaps(K, N) /\ OnlyLinks(h2, h1)
      /\ \A j \in Items : Nexts(h2)[j] = IF j = x THEN NULL ELSE Nexts(h1)[j]
      /\ \A j \in Items : Prevs(h2)[j] = IF j = x THEN NULL ELSE Prevs(h1)[j]
      /\ Firsts(h2) = Firsts(h1)
  BY <1>1, <1>2, <1>4, AloneLinks
<1>6. h2 = cJSON_DetachItemViaPointer(h, p, x)
  BY <1>1, <1>2 DEF cJSON_DetachItemViaPointer, h1, forward, back
<1> HIDE DEF h2
<1>7. OnlyLinks(h2, h)
  BY <1>4, <1>5, OnlyLinksTwice
<1>8. Refs(h2) = Refs(h)
  BY <1>7, SameRefs
<1> DEFINE nx2 == Nexts(h2)
           pv2 == Prevs(h2)
           ch2 == Firsts(h2)
<1>9. /\ nx2 \in [Items -> Pointers] /\ pv2 \in [Items -> Pointers]
      /\ ch2 \in [Items -> Pointers]
  BY <1>5, PointerViews
<1>10. /\ \A j \in Items : nx2[j] = IF j = x THEN NULL
                                    ELSE IF j = Prevs(h)[x] THEN Nexts(h)[x] ELSE Nexts(h)[j]
       /\ \A j \in Items : pv2[j] = IF j = x THEN NULL
                                    ELSE IF j = Nexts(h)[x] THEN Prevs(h)[x] ELSE Prevs(h)[j]
       /\ \A j \in Items : ch2[j] = IF j = p /\ Firsts(h)[p] = x THEN Nexts(h)[x]
                                    ELSE Firsts(h)[j]
  BY <1>3, <1>4, <1>5
<1> HIDE DEF nx2, pv2, ch2
<1>11. Linking(nx2, pv2, ch2, Refs(h), [k EXCEPT ![p] = Without(@, c)])
  <2>1. x = k[p][c]
    BY DEF x
  <2> QED
    BY <1>1, <1>9, <1>10, <2>1, LinkingWithout
<1>12. Shows(h2, [k EXCEPT ![p] = Without(@, c)])
  BY <1>8, <1>11 DEF Shows, nx2, pv2, ch2
<1>15. \A j \in Items : j # p => Firsts(h2)[j] = Firsts(h)[j]
  BY <1>10 DEF ch2
<1>16. Relinked(h, k, h2, [k EXCEPT ![p] = Without(@, c)], p)
  BY <1>7, <1>15, ListRelinked
<1> QED
  BY <1>5, <1>6, <1>12, <1>16 DEF x

-----------------------------------------------------------------------------
(* Induction on a set of numbers: one that has 0 and, with a number, the     *)
(* next one has them all.                                                   *)
LEMMA SetInduction ==
    ASSUME NEW T \in SUBSET Nat, 0 \in T, \A n \in T : n + 1 \in T
    PROVE  T = Nat
<1> DEFINE rest == Nat \ T
           R == OpToRel(<, Nat)
<1>1. IsWellFoundedOn(R, Nat)
  BY NatLessThanWellFounded
<1>2. \A x, y \in Nat : <<y, x>> \in R <=> y < x
  BY DEF OpToRel
<1> HIDE DEF R
<1>3. ASSUME rest # {} PROVE FALSE
  <2>1. PICK x \in rest : \A y \in rest : ~ (<<y, x>> \in R)
    <3>1. rest \subseteq Nat
      OBVIOUS
    <3> HIDE DEF rest
    <3> QED
      BY <1>1, <1>3, <3>1, WFMin
  <2>2. x # 0 /\ x \in Nat
    OBVIOUS
  <2>3. x - 1 \in Nat /\ x - 1 < x
    BY <2>2
  <2>4. x - 1 \in T
    BY <1>2, <2>1, <2>2, <2>3
  <2> QED
    BY <2>2, <2>3, <2>4
<1> QED
  BY <1>3

(* A list is no longer than there are items. *)
LEMMA ListFits ==
    ASSUME IsFiniteSet(Items), NEW s \in Seq(Items),
           \A m, n \in 1..Len(s) : s[m] = s[n] => m = n
    PROVE  Len(s) \in 0..Cardinality(Items)
<1>1. Len(s) \in Nat /\ DOMAIN s = 1..Len(s) /\ s \in [1..Len(s) -> Items]
  BY LenProperties
<1>2. s \in Injection(1..Len(s), Items)
  BY <1>1 DEF Injection, IsInjective
<1>3. Cardinality(1..Len(s)) <= Cardinality(Items)
  BY <1>2, FS_Injection
<1>4. Cardinality(1..Len(s)) = Len(s)
  BY <1>1, FS_Interval
<1>5. Cardinality(Items) \in Nat
  BY FS_CardinalityType
<1> QED
  BY <1>1, <1>3, <1>4, <1>5

(* Following the next pointers from the first item of a list gives the list, *)
(* and ends: whatever the size of the heap.                                *)
LEMMA ListFollowed ==
    ASSUME IsFiniteSet(Items), NEW K, NEW N, NEW h \in Heaps(K, N),
           NEW k, Shows(h, k), NEW q \in Items
    PROVE  ListFrom(h.at, After(k[q], 0)) = k[q]
<1> DEFINE at == h.at
           s  == k[q]
           i  == After(s, 0)
           D(g, n) == IF n = 0 THEN i
                      ELSE LET j == g[n - 1] IN IF j = NULL THEN NULL ELSE at[j].next
           Follows(g) == g = [n \in Nat |-> D(g, n)]
           all == [n \in Nat |-> After(s, n)]
           walk == CHOOSE g : Follows(g)
           Ends(n) == walk[n] = NULL /\ \A m \in 0..(n - 1) : walk[m] # NULL
           length == CHOOSE n \in 0..Cardinality(DOMAIN at) : Ends(n)
<1>1. /\ NULL \notin Items /\ s \in Seq(Items)
      /\ \A n \in 1..Len(s) : /\ s[n] \in Items /\ Nexts(h)[s[n]] = After(s, n)
                              /\ \A m \in 1..Len(s) : s[m] = s[n] => m = n
  <2>1. Linking(Nexts(h), Prevs(h), Firsts(h), Refs(h), k)
    BY DEF Shows
  <2>2. NULL \notin Items /\ s \in Seq(Items)
    BY <2>1 DEF Linking
  <2> SUFFICES ASSUME NEW n \in 1..Len(s)
               PROVE  /\ s[n] \in Items /\ Nexts(h)[s[n]] = After(s, n)
                      /\ \A m \in 1..Len(s) : s[m] = s[n] => m = n
    BY <2>2
  <2> QED
    BY <2>1, LinkingFacts
<1>2. Len(s) \in Nat /\ Len(s) \in 0..Cardinality(Items) /\ Cardinality(Items) \in Nat
  BY <1>1, ListFits, LenProperties, FS_CardinalityType
<1>3. DOMAIN at = Items /\ \A j \in Items : at[j].next = Nexts(h)[j]
  BY PointerViews DEF Heaps
<1> HIDE DEF at, s
<1>4. Follows(all)
  <2>1. ASSUME NEW n \in Nat PROVE After(s, n) = D(all, n)
    <3>1. CASE n = 0
      BY <3>1
    <3>2. CASE n # 0
      <4>1. n - 1 \in Nat /\ (n - 1) + 1 = n
        BY <3>2
      <4>2. all[n - 1] = IF n - 1 < Len(s) THEN s[n] ELSE NULL
        BY <4>1 DEF After
      <4>3. CASE n - 1 < Len(s)
        <5>1. n \in 1..Len(s)
          BY <1>2, <3>2, <4>3
        <5>2. all[n - 1] = s[n] /\ s[n] \in Items
          BY <1>1, <4>2, <4>3, <5>1
        <5>3. at[s[n]].next = After(s, n)
          BY <1>1, <1>3, <5>1
        <5> HIDE DEF all
        <5> QED
          BY <1>1, <3>2, <5>2, <5>3
      <4>4. CASE ~(n - 1 < Len(s))
        <5>1. all[n - 1] = NULL
          BY <4>2, <4>4
        <5>2. After(s, n) = NULL
          BY <1>2, <4>1, <4>4 DEF After
        <5> HIDE DEF all
        <5> QED
          BY <3>2, <5>1, <5>2
      <4> QED
        BY <4>3, <4>4
    <3> QED
      BY <3>1, <3>2
  <2> QED
    BY <2>1
<1>5. Follows(walk)
  <2> HIDE DEF Follows, all
  <2> QED
    BY <1>4
<1> HIDE DEF walk
<1> DEFINE T == {n \in Nat : walk[n] = After(s, n)}
<1>6. T = Nat
  <2>1. \A n \in Nat : walk[n] = D(walk, n) /\ After(s, n) = D(all, n)
    BY <1>4, <1>5
  <2>2. T \in SUBSET Nat /\ 0 \in T
    BY <2>1
  <2>3. ASSUME NEW n \in T PROVE n + 1 \in T
    <3>1. n \in Nat /\ n + 1 \in Nat /\ n + 1 # 0 /\ (n + 1) - 1 = n
      OBVIOUS
    <3>2. walk[n] = all[n]
      BY <3>1
    <3>3. D(walk, n + 1) = D(all, n + 1)
      <4> HIDE DEF all
      <4> QED
        BY <3>1, <3>2
    <3>4. walk[n + 1] = D(walk, n + 1) /\ After(s, n + 1) = D(all, n + 1)
      BY <2>1, <3>1
    <3> HIDE DEF D
    <3> QED
      BY <3>1, <3>3, <3>4
  <2> HIDE DEF T
  <2> QED
    BY <2>2, <2>3, SetInduction
<1>7. \A n \in Nat : walk[n] = After(s, n)
  BY <1>6
<1>8. \A n \in Nat : Ends(n) <=> n = Len(s)
  <2>1. ASSUME NEW n \in Nat PROVE walk[n] = NULL <=> ~(n < Len(s))
    <3>1. CASE n < Len(s)
      <4>1. n + 1 \in 1..Len(s)
        BY <1>2, <3>1
      <4> QED
        BY <1>1, <1>7, <3>1, <4>1 DEF After
    <3>2. CASE ~(n < Len(s))
      BY <1>7, <3>2 DEF After
    <3> QED
      BY <3>1, <3>2
  <2> SUFFICES ASSUME NEW n \in Nat PROVE Ends(n) <=> n = Len(s)
    OBVIOUS
  <2>2. CASE n = Len(s)
    <3>1. \A m \in 0..(n - 1) : m \in Nat /\ m < Len(s)
      BY <1>2, <2>2
    <3> QED
      BY <2>1, <2>2, <3>1
  <2>3. CASE n < Len(s)
    BY <1>2, <2>1, <2>3
  <2>4. CASE n > Len(s)
    <3>1. Len(s) \in 0..(n - 1)
      BY <1>2, <2>4
    <3>2. walk[Len(s)] = NULL
      BY <1>2, <2>1
    <3> QED
      BY <1>2, <2>4, <3>1, <3>2
  <2> QED
    BY <1>2, <2>2, <2>3, <2>4
<1>9. length = Len(s)
  <2>1. Len(s) \in 0..Cardinality(DOMAIN at) /\ Ends(Len(s))
    BY <1>2, <1>3, <1>8
  <2>2. \A n \in 0..Cardinality(DOMAIN at) : Ends(n) => n = Len(s)
    BY <1>2, <1>3, <1>8
  <2> HIDE DEF Ends
  <2> QED
    BY <2>1, <2>2
<1>10. ListFrom(at, i) = [n \in 1..length |-> walk[n - 1]]
  BY DEF ListFrom, walk
<1> HIDE DEF length
<1>11. \A n \in 1..Len(s) : walk[n - 1] = s[n]
  <2> SUFFICES ASSUME NEW n \in 1..Len(s) PROVE walk[n - 1] = s[n]
    OBVIOUS
  <2>1. n - 1 \in Nat /\ n - 1 < Len(s) /\ (n - 1) + 1 = n
    BY <1>2
  <2> QED
    BY <1>7, <2>1 DEF After
<1>12. ListFrom(at, i) = [n \in 1..Len(s) |-> s[n]]
  BY <1>9, <1>10, <1>11
<1>13. [n \in 1..Len(s) |-> s[n]] = s
  BY <1>1, LenProperties
<1> QED
  BY <1>12, <1>13 DEF at, s

LEMMA ShownFacts ==
    ASSUME NEW h, NEW k, Shows(h, k), NEW p \in Items
    PROVE  /\ NULL \notin Items /\ k \in [Items -> Seq(Items)] /\ Apart(k)
           /\ k[p] \in Seq(Items) /\ Len(k[p]) \in Nat
           /\ p \notin Refs(h) => Firsts(h)[p] = After(k[p], 0)
           /\ p \in Refs(h) => k[p] = <<>>
           /\ \A n \in 1..Len(k[p]) : /\ k[p][n] \in Items /\ k[p][n] # NULL
                                      /\ Nexts(h)[k[p][n]] = After(k[p], n)
                                      /\ Prevs(h)[k[p][n]] = Before(k[p], n)
           /\ NoChild(k, p) => Nexts(h)[p] = NULL /\ Prevs(h)[p] = NULL
<1>1. Linking(Nexts(h), Prevs(h), Firsts(h), Refs(h), k)
  BY DEF Shows
<1>2. /\ NULL \notin Items /\ k \in [Items -> Seq(Items)] /\ Apart(k)
      /\ p \notin Refs(h) => Firsts(h)[p] = After(k[p], 0)
      /\ p \in Refs(h) => k[p] = <<>>
      /\ NoChild(k, p) => Nexts(h)[p] = NULL /\ Prevs(h)[p] = NULL
  BY <1>1 DEF Linking
<1>3. k[p] \in Seq(Items) /\ Len(k[p]) \in Nat
  BY <1>2, LenProperties
<1>4. ASSUME NEW n \in 1..Len(k[p])
      PROVE  /\ k[p][n] \in Items
             /\ Nexts(h)[k[p][n]] = After(k[p], n)
             /\ Prevs(h)[k[p][n]] = Before(k[p], n)
  BY <1>1, LinkingFacts
<1> QED
  BY <1>2, <1>3, <1>4

(* What a member of a list points to are the members beside it. *)
LEMMA MemberShown ==
    ASSUME NEW h, NEW k, Shows(h, k), NEW p \in Items, NEW n \in 1..Len(k[p])
    PROVE  Nexts(h)[k[p][n]] = After(k[p], n) /\ Prevs(h)[k[p][n]] = Before(k[p], n)
<1>1. Linking(Nexts(h), Prevs(h), Firsts(h), Refs(h), k)
  BY DEF Shows
<1> QED
  BY <1>1 DEF Linking

(* The children of an item that is no reference are its list. *)
LEMMA ChildrenShown ==
    ASSUME IsFiniteSet(Items), NEW K, NEW N, NEW h \in Heaps(K, N),
           NEW k, Shows(h, k), NEW p \in Items, p \notin Refs(h)
    PROVE  Children(h.at, p) = k[p]
<1>1. Firsts(h)[p] = After(k[p], 0) /\ Firsts(h)[p] = h.at[p].child
  BY ShownFacts, PointerViews
<1>2. ListFrom(h.at, After(k[p], 0)) = k[p]
  BY ListFollowed
<1> QED
  BY <1>1, <1>2 DEF Children

(* A reference that points to the first item of a list has its items. *)
LEMMA ChildrenOfReference ==
    ASSUME IsFiniteSet(Items), NEW K, NEW N, NEW h \in Heaps(K, N),
           NEW k, Shows(h, k), NEW p \in Items,
           NEW r \in Items, h.at[r].child = After(k[p], 0)
    PROVE  Children(h.at, r) = k[p]
BY ListFollowed DEF Children

(* An index finds the item at its place of the list. *)
THEOREM IndexFinds ==
    ASSUME IsFiniteSet(Items), NEW K, NEW N, NEW h \in Heaps(K, N),
           NEW k, Shows(h, k), NEW p \in Items, p \notin Refs(h),
           NEW index \in Nat
    PROVE  get_array_item(h.at, p, index) = After(k[p], index)
BY ChildrenShown DEF get_array_item, After

(* Of some numbers there is a least one. *)
LEMMA LeastOne ==
    ASSUME NEW S \in SUBSET Nat, S # {}
    PROVE  \E n \in S : \A m \in Nat : m < n => m \notin S
<1> DEFINE R == OpToRel(<, Nat)
<1>1. IsWellFoundedOn(R, Nat)
  BY NatLessThanWellFounded
<1>2. \A x, y \in Nat : <<y, x>> \in R <=> y < x
  BY DEF OpToRel
<1> HIDE DEF R
<1>3. PICK n \in S : \A m \in S : ~ (<<m, n>> \in R)
  BY <1>1, WFMin
<1> QED
  BY <1>2, <1>3

(* A name finds the first of the members that have it, if there is one. *)
THEOREM NameFinds ==
    ASSUME IsFiniteSet(Items), NEW K, NEW N, NEW h \in Heaps(K, N),
           NEW k, Shows(h, k), NEW p \in Items, p \notin Refs(h),
           NEW name, name # NULL, NEW exact \in BOOLEAN
    PROVE  LET Fits(n) == SameName(name, h.at[k[p][n]].name, exact)
               found == get_object_item(h.at, p, name, exact)
           IN  \/ found = NULL /\ \A n \in 1..Len(k[p]) : ~ Fits(n)
               \/ \E n \in 1..Len(k[p]) :
                     found = k[p][n] /\ Fits(n) /\ \A m \in 1..(n - 1) : ~ Fits(m)
<1> DEFINE s == k[p]
           Fits(n) == SameName(name, h.at[s[n]].name, exact)
           First(n) == Fits(n) /\ \A m \in 1..(n - 1) : ~ Fits(m)
           found == get_object_item(h.at, p, name, exact)
<1>1. Children(h.at, p) = s /\ Len(s) \in Nat
  BY ChildrenShown, ShownFacts
<1>2. found = IF ~ \E n \in 1..Len(s) : Fits(n) THEN NULL
              ELSE s[CHOOSE n \in 1..Len(s) : First(n)]
  BY <1>1 DEF get_object_item
<1> HIDE DEF found, s
<1>3. CASE ~ \E n \in 1..Len(s) : Fits(n)
  BY <1>2, <1>3 DEF found, s
<1>4. CASE \E n \in 1..Len(s) : Fits(n)
  <2> DEFINE S == {n \in 1..Len(s) : Fits(n)}
             n0 == CHOOSE n \in 1..Len(s) : First(n)
  <2>1. S \in SUBSET Nat /\ S # {}
    BY <1>1, <1>4
  <2> HIDE DEF Fits
  <2>2. PICK n \in S : \A m \in Nat : m < n => m \notin S
    <3> HIDE DEF S
    <3> QED
      BY <2>1, LeastOne
  <2>3. n \in 1..Len(s) /\ Fits(n)
    OBVIOUS
  <2>4. ASSUME NEW m \in 1..(n - 1) PROVE ~ Fits(m)
    <3>1. m \in Nat /\ m < n /\ m \in 1..Len(s)
      BY <1>1, <2>3
    <3> QED
      BY <2>2, <3>1
  <2>5. First(n)
    BY <2>3, <2>4
  <2>6. n0 \in 1..Len(s) /\ First(n0)
    <3> HIDE DEF First
    <3> QED
      BY <2>3, <2>5
  <2>7. found = s[n0]
    BY <1>2, <1>4
  <2> HIDE DEF n0
  <2>8. \E n1 \in 1..Len(s) : found = s[n1] /\ First(n1)
    BY <2>6, <2>7
  <2> QED
    BY <2>8 DEF found, s, Fits
<1> QED
  BY <1>3, <1>4

(* Whatever is found by its name is one of the members.                     *)
LEMMA MemberFound ==
    ASSUME IsFiniteSet(Items), NEW K, NEW N, NEW h \in Heaps(K, N),
           NEW k, Shows(h, k), NEW p \in Items, p \notin Refs(h),
           NEW name, name # NULL, NEW exact \in BOOLEAN
    PROVE  \/ get_object_item(h.at, p, name, exact) = NULL
           \/ \E n \in 1..Len(k[p]) : get_object_item(h.at, p, name, exact) = k[p][n]
BY NameFinds

-----------------------------------------------------------------------------
(* A heap with the pointers of LinkingInserted shows the list with the item. *)
LEMMA InsertionShown ==
    ASSUME NEW K, NEW N, NEW h, NEW k, Shows(h, k),
           NEW p \in Items, p \notin Refs(h), NEW c \in 1..(Len(k[p]) + 1),
           NEW i \in Items, NoChild(k, i),
           NEW h2 \in Heaps(K, N), OnlyLinks(h2, h),
           \A j \in Items :
              Nexts(h2)[j] = IF j = i THEN After(k[p], c - 1)
                             ELSE IF j = Before(k[p], c) THEN i ELSE Nexts(h)[j],
           \A j \in Items :
              Prevs(h2)[j] = IF j = i THEN Before(k[p], c)
                             ELSE IF j = After(k[p], c - 1) THEN i ELSE Prevs(h)[j],
           \A j \in Items :
              Firsts(h2)[j] = IF j = p /\ c = 1 THEN i ELSE Firsts(h)[j]
    PROVE  Shows(h2, [k EXCEPT ![p] = Inserted(@, c, i)])
<1>1. Linking(Nexts(h), Prevs(h), Firsts(h), Refs(h), k)
  BY DEF Shows
<1>2. Refs(h2) = Refs(h)
  BY SameRefs
<1>3. /\ Nexts(h2) \in [Items -> Pointers] /\ Prevs(h2) \in [Items -> Pointers]
      /\ Firsts(h2) \in [Items -> Pointers]
  BY PointerViews
<1> DEFINE nx2 == Nexts(h2)
           pv2 == Prevs(h2)
           ch2 == Firsts(h2)
<1>4. Linking(nx2, pv2, ch2, Refs(h), [k EXCEPT ![p] = Inserted(@, c, i)])
  BY <1>1, <1>3, LinkingInserted
<1> QED
  BY <1>2, <1>4 DEF Shows

(* Adding puts the item behind the last one. *)
THEOREM AddImplemented ==
    ASSUME IsFiniteSet(Items), NEW K, NEW N, NEW h \in Heaps(K, N),
           NEW k, Shows(h, k), NEW p \in Items, p \notin Refs(h),
           NEW i \in Items, NoChild(k, i)
    PROVE  LET h2 == cJSON_AddItemToArray(h, p, i)
               k2 == [k EXCEPT ![p] = Inserted(@, Len(@) + 1, i)]
           IN  h2 \in Heaps(K, N) /\ Relinked(h, k, h2, k2, p) /\ Shows(h2, k2)
<1> DEFINE s  == k[p]
           c  == Len(s) + 1
           h2 == cJSON_AddItemToArray(h, p, i)
<1>1. /\ NULL \notin Items /\ Len(s) \in Nat
      /\ Firsts(h)[p] = After(s, 0) /\ h.at[p].child = Firsts(h)[p]
      /\ \A n \in 1..Len(s) : s[n] \in Items /\ s[n] # NULL
      /\ Nexts(h)[i] = NULL /\ Prevs(h)[i] = NULL
  BY ShownFacts, PointerViews
<1>2. Children(h.at, p) = s
  BY ChildrenShown
<1>3. \A n \in 1..Len(s) : s[n] # i
  BY DEF NoChild, Elements
<1>4. c \in 1..(Len(s) + 1) /\ c - 1 = Len(s)
  BY <1>1
<1>5. /\ Nexts(h) \in [Items -> Pointers] /\ Prevs(h) \in [Items -> Pointers]
      /\ Firsts(h) \in [Items -> Pointers] /\ i \in Pointers
  BY PointerViews DEF Pointers
<1>6. After(s, c - 1) = NULL
  BY <1>1, <1>4 DEF After
<1>7. /\ h2 \in Heaps(K, N) /\ OnlyLinks(h2, h)
      /\ \A j \in Items : Nexts(h2)[j] = IF j = i THEN NULL
                                         ELSE IF j = Before(s, c) THEN i ELSE Nexts(h)[j]
      /\ \A j \in Items : Prevs(h2)[j] = IF j = i THEN Before(s, c) ELSE Prevs(h)[j]
      /\ \A j \in Items : Firsts(h2)[j] = IF j = p /\ c = 1 THEN i ELSE Firsts(h)[j]
  <2>1. CASE Len(s) = 0
    <3>1. h.at[p].child = NULL /\ Before(s, c) = NULL /\ c = 1
      BY <1>1, <2>1 DEF After, Before
    <3>2. h2 = SetChild(h, p, i)
      BY <1>1, <3>1 DEF cJSON_AddItemToArray
    <3>3. /\ SetChild(h, p, i) \in Heaps(K, N) /\ OnlyLinks(SetChild(h, p, i), h)
          /\ Firsts(SetChild(h, p, i)) = [Firsts(h) EXCEPT ![p] = i]
          /\ Nexts(SetChild(h, p, i)) = Nexts(h) /\ Prevs(SetChild(h, p, i)) = Prevs(h)
      BY <1>5, ChildSet
    <3> HIDE DEF h2, c, s
    <3> QED
      BY <1>1, <1>5, <3>1, <3>2, <3>3
  <2>2. CASE Len(s) # 0
    <3>1. Len(s) \in 1..Len(s) /\ c # 1
      BY <1>1, <2>2
    <3>2. h.at[p].child # NULL
      <4>1. 1 \in 1..Len(s) /\ After(s, 0) = s[1]
        BY <1>1, <2>2 DEF After
      <4> QED
        BY <1>1, <4>1
    <3>3. PICK last \in Items : last = s[Len(s)] /\ last # i /\ last \in Pointers
      BY <1>1, <1>3, <3>1 DEF Pointers
    <3>4. Before(s, c) = last
      BY <1>1, <2>2, <3>3 DEF Before
    <3> DEFINE h1 == SetNext(h, last, i)
               h3 == SetPrev(h1, i, last)
    <3>5. h2 = h3
      BY <1>1, <1>2, <3>2, <3>3 DEF cJSON_AddItemToArray, suffix_object, LastOf
    <3>6. /\ h1 \in Heaps(K, N) /\ OnlyLinks(h1, h)
          /\ Nexts(h1) = [Nexts(h) EXCEPT ![last] = i]
          /\ Prevs(h1) = Prevs(h) /\ Firsts(h1) = Firsts(h)
      BY <1>5, NextSet
    <3> HIDE DEF h1
    <3>7. last \in Pointers
      BY <3>3
    <3>8. /\ h3 \in Heaps(K, N) /\ OnlyLinks(h3, h1)
          /\ Prevs(h3) = [Prevs(h1) EXCEPT ![i] = last]
          /\ Nexts(h3) = Nexts(h1) /\ Firsts(h3) = Firsts(h1)
      BY <3>6, <3>7, PrevSet
    <3> HIDE DEF h2, h3, c, s
    <3>9. OnlyLinks(h3, h)
      BY <3>6, <3>8, OnlyLinksTwice
    <3> QED
      BY <1>1, <1>5, <3>1, <3>3, <3>4, <3>5, <3>6, <3>8, <3>9
  <2> QED
    BY <2>1, <2>2
<1> HIDE DEF h2
<1>8. NULL \notin Items
  BY <1>1
<1>9. Shows(h2, [k EXCEPT ![p] = Inserted(@, c, i)])
  <2> HIDE DEF c
  <2>1. \A j \in Items :
           Nexts(h2)[j] = IF j = i THEN After(s, c - 1)
                          ELSE IF j = Before(s, c) THEN i ELSE Nexts(h)[j]
    BY <1>6, <1>7
  <2>2. \A j \in Items :
           Prevs(h2)[j] = IF j = i THEN Before(s, c)
                          ELSE IF j = After(s, c - 1) THEN i ELSE Prevs(h)[j]
    BY <1>6, <1>7, <1>8
  <2> QED
    BY <1>4, <1>7, <2>1, <2>2, InsertionShown
<1>10. Relinked(h, k, h2, [k EXCEPT ![p] = Inserted(@, c, i)], p)
  <2>1. OnlyLinks(h2, h) /\ \A j \in Items : j # p => Firsts(h2)[j] = Firsts(h)[j]
    BY <1>7
  <2> QED
    BY <2>1, ListRelinked
<1> QED
  BY <1>7, <1>9, <1>10 DEF h2

(* The pointers of an item that is linked before another one, and after what  *)
(* was before that: if that is nothing, the item becomes the first of p.      *)
LEMMA BetweenLinks ==
    ASSUME NULL \notin Items,
           NEW K, NEW N, NEW h \in Heaps(K, N), NEW p \in Items, NEW i \in Items,
           NEW after \in Items, after # i, NEW before \in Pointers, before # i,
           Firsts(h)[p] = after <=> before = NULL
    PROVE  LET h2 == LinkedBetween(h, p, before, i, after)
           IN  /\ h2 \in Heaps(K, N) /\ OnlyLinks(h2, h)
               /\ \A j \in Items : Nexts(h2)[j] = IF j = i THEN after
                                     ELSE IF j = before THEN i ELSE Nexts(h)[j]
               /\ \A j \in Items : Prevs(h2)[j] = IF j = i THEN before
                                     ELSE IF j = after THEN i ELSE Prevs(h)[j]
               /\ \A j \in Items : Firsts(h2)[j] = IF j = p /\ before = NULL THEN i
                                                   ELSE Firsts(h)[j]
<1> DEFINE h1 == SetNext(h, i, after)
           h2 == SetPrev(h1, i, before)
           h3 == SetPrev(h2, after, i)
           h4 == IF h.at[p].child = after THEN SetChild(h3, p, i) ELSE SetNext(h3, before, i)
<1>1. i \in Pointers /\ after \in Pointers /\ (before # NULL => before \in Items)
  BY DEF Pointers
<1>2. /\ h1 \in Heaps(K, N) /\ OnlyLinks(h1, h)
      /\ Nexts(h1) = [Nexts(h) EXCEPT ![i] = after]
      /\ Prevs(h1) = Prevs(h) /\ Firsts(h1) = Firsts(h)
  BY <1>1, NextSet
<1> HIDE DEF h1
<1>3. h1 \in Heaps(K, N)
  BY <1>2
<1>4. /\ h2 \in Heaps(K, N) /\ OnlyLinks(h2, h1)
      /\ Prevs(h2) = [Prevs(h1) EXCEPT ![i] = before]
      /\ Nexts(h2) = Nexts(h1) /\ Firsts(h2) = Firsts(h1)
  BY <1>3, PrevSet
<1> HIDE DEF h2
<1>5. h2 \in Heaps(K, N)
  BY <1>4
<1>6. /\ h3 \in Heaps(K, N) /\ OnlyLinks(h3, h2)
      /\ Prevs(h3) = [Prevs(h2) EXCEPT ![after] = i]
      /\ Nexts(h3) = Nexts(h2) /\ Firsts(h3) = Firsts(h2)
  BY <1>1, <1>5, PrevSet
<1> HIDE DEF h3
<1>7. /\ Nexts(h3) = [Nexts(h) EXCEPT ![i] = after]
      /\ Prevs(h3) = [[Prevs(h) EXCEPT ![i] = before] EXCEPT ![after] = i]
      /\ Firsts(h3) = Firsts(h) /\ h3 \in Heaps(K, N) /\ OnlyLinks(h3, h)
  <2>1. OnlyLinks(h3, h)
    BY <1>2, <1>4, <1>6, OnlyLinksTwice
  <2> QED
    BY <1>2, <1>4, <1>6, <2>1
<1>8. /\ Nexts(h) \in [Items -> Pointers] /\ Prevs(h) \in [Items -> Pointers]
      /\ Firsts(h) \in [Items -> Pointers] /\ h.at[p].child = Firsts(h)[p]
  BY PointerViews
<1>9. h3 \in Heaps(K, N)
  BY <1>7
<1>10. /\ h4 \in Heaps(K, N) /\ OnlyLinks(h4, h)
       /\ \A j \in Items : Nexts(h4)[j] = IF j = i THEN after
                                          ELSE IF j = before THEN i ELSE Nexts(h)[j]
       /\ \A j \in Items : Prevs(h4)[j] = IF j = i THEN before
                                          ELSE IF j = after THEN i ELSE Prevs(h)[j]
       /\ \A j \in Items : Firsts(h4)[j] = IF j = p /\ before = NULL THEN i
                                           ELSE Firsts(h)[j]
  <2>1. CASE before = NULL
    <3>1. h4 = SetChild(h3, p, i)
      BY <1>8, <2>1
    <3>2. /\ SetChild(h3, p, i) \in Heaps(K, N) /\ OnlyLinks(SetChild(h3, p, i), h3)
          /\ Firsts(SetChild(h3, p, i)) = [Firsts(h3) EXCEPT ![p] = i]
          /\ Nexts(SetChild(h3, p, i)) = Nexts(h3) /\ Prevs(SetChild(h3, p, i)) = Prevs(h3)
      BY <1>1, <1>9, ChildSet
    <3> HIDE DEF h4
    <3>3. OnlyLinks(h4, h)
      BY <1>7, <3>1, <3>2, OnlyLinksTwice
    <3> QED
      BY <1>7, <1>8, <2>1, <3>1, <3>2, <3>3
  <2>2. CASE before # NULL
    <3>1. h4 = SetNext(h3, before, i)
      BY <1>8, <2>2
    <3>2. /\ SetNext(h3, before, i) \in Heaps(K, N) /\ OnlyLinks(SetNext(h3, before, i), h3)
          /\ Nexts(SetNext(h3, before, i)) = [Nexts(h3) EXCEPT ![before] = i]
          /\ Prevs(SetNext(h3, before, i)) = Prevs(h3)
          /\ Firsts(SetNext(h3, before, i)) = Firsts(h3)
      <4>1. before \in Items
        BY <1>1, <2>2
      <4> QED
        BY <1>1, <1>9, <4>1, NextSet
    <3> HIDE DEF h4
    <3>3. OnlyLinks(h4, h)
      BY <1>7, <3>1, <3>2, OnlyLinksTwice
    <3> QED
      BY <1>7, <1>8, <2>2, <3>1, <3>2, <3>3
  <2> QED
    BY <2>1, <2>2
<1>11. h4 = LinkedBetween(h, p, before, i, after)
  BY DEF LinkedBetween, h1, h2, h3
<1> HIDE DEF h4
<1> QED
  BY <1>10, <1>11

(* Linking an item between an item of a list and what is before it. *)
LEMMA LinkedBetweenShown ==
    ASSUME NEW K, NEW N, NEW h \in Heaps(K, N), NEW k, Shows(h, k),
           NEW p \in Items, p \notin Refs(h), NEW c \in 1..Len(k[p]),
           NEW i \in Items, NoChild(k, i),
           NEW after \in Items, after = k[p][c],
           NEW before \in Pointers, before = Prevs(h)[after]
    PROVE  LET h2 == LinkedBetween(h, p, before, i, after)
               k2 == [k EXCEPT ![p] = Inserted(@, c, i)]
           IN  h2 \in Heaps(K, N) /\ Relinked(h, k, h2, k2, p) /\ Shows(h2, k2)
<1> DEFINE s  == k[p]
           h2 == LinkedBetween(h, p, before, i, after)
<1>1. /\ NULL \notin Items /\ Len(s) \in Nat
      /\ Firsts(h)[p] = After(s, 0) /\ before = Before(s, c)
      /\ \A n \in 1..Len(s) : s[n] \in Items /\ s[n] # i
      /\ \A m, n \in 1..Len(s) : s[m] = s[n] => m = n
  <2>1. Linking(Nexts(h), Prevs(h), Firsts(h), Refs(h), k)
    BY DEF Shows
  <2>2. \A m, n \in 1..Len(s) : s[m] = s[n] => m = n
    BY <2>1, LinkingFacts
  <2>3. \A n \in 1..Len(s) : s[n] # i
    BY DEF NoChild, Elements
  <2> QED
    BY <2>2, <2>3, ShownFacts
<1>3. After(s, c - 1) = after /\ after # i
  <2>1. c - 1 < Len(s) /\ (c - 1) + 1 = c
    BY <1>1
  <2> QED
    BY <1>1, <2>1 DEF After
<1>4. (Firsts(h)[p] = after) <=> (c = 1)
  <2>1. 1 \in 1..Len(s) /\ 0 < Len(s)
    BY <1>1
  <2>2. Firsts(h)[p] = s[1]
    BY <1>1, <2>1 DEF After
  <2> QED
    BY <1>1, <2>1, <2>2
<1>5. (before = NULL <=> c = 1) /\ before # i
  <2>1. CASE c = 1
    BY <1>1, <2>1 DEF Before
  <2>2. CASE c # 1
    <3>1. c - 1 \in 1..Len(s) /\ before = s[c - 1]
      BY <1>1, <2>2 DEF Before
    <3> QED
      BY <1>1, <2>2, <3>1
  <2> QED
    BY <2>1, <2>2
<1>6. /\ h2 \in Heaps(K, N) /\ OnlyLinks(h2, h)
      /\ \A j \in Items : Nexts(h2)[j] = IF j = i THEN after
                            ELSE IF j = before THEN i ELSE Nexts(h)[j]
      /\ \A j \in Items : Prevs(h2)[j] = IF j = i THEN before
                            ELSE IF j = after THEN i ELSE Prevs(h)[j]
      /\ \A j \in Items : Firsts(h2)[j] = IF j = p /\ before = NULL THEN i
                                          ELSE Firsts(h)[j]
  <2>1. /\ NULL \notin Items /\ after # i /\ before # i
        /\ Firsts(h)[p] = after <=> before = NULL
    BY <1>1, <1>3, <1>4, <1>5
  <2> QED
    BY <2>1, BetweenLinks
<1> HIDE DEF h2
<1>13. Shows(h2, [k EXCEPT ![p] = Inserted(@, c, i)])
  <2>1. \A j \in Items :
           Nexts(h2)[j] = IF j = i THEN After(s, c - 1)
                          ELSE IF j = Before(s, c) THEN i ELSE Nexts(h)[j]
    BY <1>1, <1>3, <1>6
  <2>2. \A j \in Items :
           Prevs(h2)[j] = IF j = i THEN Before(s, c)
                          ELSE IF j = After(s, c - 1) THEN i ELSE Prevs(h)[j]
    BY <1>1, <1>3, <1>6
  <2>3. \A j \in Items : Firsts(h2)[j] = IF j = p /\ c = 1 THEN i ELSE Firsts(h)[j]
    BY <1>5, <1>6
  <2>4. c \in 1..(Len(k[p]) + 1)
    BY <1>1
  <2>5. h2 \in Heaps(K, N) /\ OnlyLinks(h2, h)
    BY <1>6
  <2> HIDE DEF s
  <2> QED
    BY <2>1, <2>2, <2>3, <2>4, <2>5, InsertionShown DEF s
<1>14. Relinked(h, k, h2, [k EXCEPT ![p] = Inserted(@, c, i)], p)
  <2>1. OnlyLinks(h2, h) /\ \A j \in Items : j # p => Firsts(h2)[j] = Firsts(h)[j]
    BY <1>6
  <2> QED
    BY <2>1, ListRelinked
<1> QED
  BY <1>6, <1>13, <1>14 DEF h2

(* Inserting puts the item before the one at the index, or behind the last. *)
THEOREM InsertImplemented ==
    ASSUME IsFiniteSet(Items), NEW K, NEW N, NEW h \in Heaps(K, N),
           NEW k, Shows(h, k), NEW p \in Items, p \notin Refs(h),
           NEW i \in Items, NoChild(k, i), NEW which \in Nat
    PROVE  LET h2 == cJSON_InsertItemInArray(h, p, which, i)
               c  == IF which < Len(k[p]) THEN which + 1 ELSE Len(k[p]) + 1
               k2 == [k EXCEPT ![p] = Inserted(@, c, i)]
           IN  h2 \in Heaps(K, N) /\ Relinked(h, k, h2, k2, p) /\ Shows(h2, k2)
<1> DEFINE s == k[p]
           after == get_array_item(h.at, p, which)
<1>1. after = After(s, which)
  BY IndexFinds
<1> HIDE DEF after
<1>2. /\ Len(s) \in Nat /\ NULL \notin Items
      /\ \A n \in 1..Len(s) : s[n] \in Items /\ s[n] # NULL
  BY ShownFacts
<1>3. CASE ~(which < Len(s))
  <2>1. cJSON_InsertItemInArray(h, p, which, i) = cJSON_AddItemToArray(h, p, i)
    BY <1>1, <1>3 DEF cJSON_InsertItemInArray, after, After
  <2> QED
    BY <1>3, <2>1, AddImplemented
<1>4. CASE which < Len(s)
  <2>1. which + 1 \in 1..Len(s)
    BY <1>2, <1>4
  <2>2. PICK a \in Items : a = after /\ a = s[which + 1] /\ a # NULL
    BY <1>1, <1>2, <1>4, <2>1 DEF After
  <2>3. PICK before \in Pointers : before = Prevs(h)[a] /\ before = h.at[a].prev
    BY PointerViews
  <2>4. cJSON_InsertItemInArray(h, p, which, i) = LinkedBetween(h, p, before, i, a)
    BY <2>2, <2>3 DEF cJSON_InsertItemInArray, after
  <2>5. /\ LinkedBetween(h, p, before, i, a) \in Heaps(K, N)
        /\ Relinked(h, k, LinkedBetween(h, p, before, i, a),
                    [k EXCEPT ![p] = Inserted(@, which + 1, i)], p)
        /\ Shows(LinkedBetween(h, p, before, i, a),
                 [k EXCEPT ![p] = Inserted(@, which + 1, i)])
    <3>1. a = k[p][which + 1] /\ before = Prevs(h)[a]
      BY <2>2, <2>3
    <3> QED
      BY <2>1, <3>1, LinkedBetweenShown
  <2> QED
    BY <1>4, <2>4, <2>5
<1> QED
  BY <1>3, <1>4

AreBeside(h, x, forward, back) == forward = Nexts(h)[x] /\ back = Prevs(h)[x]

(* The pointers of an item that is put where another one was. *)
LEMMA ReplacedLinks ==
    ASSUME NULL \notin Items,
           NEW K, NEW N, NEW h \in Heaps(K, N), NEW p \in Items, NEW x \in Items,
           NEW new \in Items, x # new,
           NEW forward \in Pointers, NEW back \in Pointers,
           AreBeside(h, x, forward, back)
    PROVE  LET h4 == Replaced(h, p, x, new)
           IN  /\ h4 \in Heaps(K, N) /\ OnlyLinks(h4, h)
               /\ \A j \in Items :
                     Nexts(h4)[j] = IF j = x THEN NULL ELSE IF j = back THEN new
                                    ELSE IF j = new THEN forward ELSE Nexts(h)[j]
               /\ \A j \in Items :
                     Prevs(h4)[j] = IF j = x THEN NULL ELSE IF j = forward THEN new
                                    ELSE IF j = new THEN back ELSE Prevs(h)[j]
               /\ \A j \in Items :
                     Firsts(h4)[j] = IF j = p /\ Firsts(h)[p] = x THEN new
                                     ELSE Firsts(h)[j]
<1> DEFINE h1 == SetNext(h, new, forward)
           h2 == SetPrev(h1, new, back)
           h3 == Repointed(h2, p, x, new, new)
           h4 == Alone(h3, x)
<1>1. new \in Pointers
  BY DEF Pointers
<1>2. /\ h1 \in Heaps(K, N) /\ OnlyLinks(h1, h)
      /\ Nexts(h1) = [Nexts(h) EXCEPT ![new] = forward]
      /\ Prevs(h1) = Prevs(h) /\ Firsts(h1) = Firsts(h)
  BY NextSet
<1> HIDE DEF h1
<1>3. h1 \in Heaps(K, N)
  BY <1>2
<1>4. /\ h2 \in Heaps(K, N) /\ OnlyLinks(h2, h1)
      /\ Prevs(h2) = [Prevs(h1) EXCEPT ![new] = back]
      /\ Nexts(h2) = Nexts(h1) /\ Firsts(h2) = Firsts(h1)
  BY <1>3, PrevSet
<1> HIDE DEF h2
<1>5. h2 \in Heaps(K, N)
  BY <1>4
<1>6. /\ h3 \in Heaps(K, N) /\ OnlyLinks(h3, h2)
      /\ \A j \in Items : Nexts(h3)[j] = IF j = Prevs(h2)[x] THEN new ELSE Nexts(h2)[j]
      /\ \A j \in Items : Prevs(h3)[j] = IF j = Nexts(h2)[x] THEN new ELSE Prevs(h2)[j]
      /\ \A j \in Items : Firsts(h3)[j] = IF j = p /\ Firsts(h2)[p] = x THEN new
                                          ELSE Firsts(h2)[j]
  <2>1. h3 \in Heaps(K, N) /\ IsRepointed(h3, h2, p, x, new, new)
    BY <1>1, <1>5, RepointedLinks
  <2> QED
    BY <2>1 DEF IsRepointed
<1> HIDE DEF h3
<1>7. h3 \in Heaps(K, N)
  BY <1>6
<1>8. /\ h4 \in Heaps(K, N) /\ OnlyLinks(h4, h3)
      /\ \A j \in Items : Nexts(h4)[j] = IF j = x THEN NULL ELSE Nexts(h3)[j]
      /\ \A j \in Items : Prevs(h4)[j] = IF j = x THEN NULL ELSE Prevs(h3)[j]
      /\ Firsts(h4) = Firsts(h3)
  BY <1>7, AloneLinks
<1>9. h4 = Replaced(h, p, x, new)
  <2>1. h.at[x].next = forward /\ h.at[x].prev = back
    BY PointerViews DEF AreBeside
  <2> QED
    BY <2>1 DEF Replaced, h1, h2, h3
<1> HIDE DEF h4
<1>10. OnlyLinks(h4, h)
  BY <1>2, <1>4, <1>6, <1>8, OnlyLinksTwice
<1>11. /\ Nexts(h) \in [Items -> Pointers] /\ Prevs(h) \in [Items -> Pointers]
  BY PointerViews
<1>12. Prevs(h2) = [Prevs(h) EXCEPT ![new] = back]
       /\ Nexts(h2) = [Nexts(h) EXCEPT ![new] = forward] /\ Firsts(h2) = Firsts(h)
  BY <1>2, <1>4
<1>13. Prevs(h2)[x] = back /\ Nexts(h2)[x] = forward
  BY <1>11, <1>12 DEF AreBeside
<1>14. \A j \in Items :
          Nexts(h4)[j] = IF j = x THEN NULL ELSE IF j = back THEN new
                         ELSE IF j = new THEN forward ELSE Nexts(h)[j]
  BY <1>6, <1>8, <1>11, <1>12, <1>13
<1>15. \A j \in Items :
          Prevs(h4)[j] = IF j = x THEN NULL ELSE IF j = forward THEN new
                         ELSE IF j = new THEN back ELSE Prevs(h)[j]
  BY <1>6, <1>8, <1>11, <1>12, <1>13
<1>16. \A j \in Items : Firsts(h4)[j] = IF j = p /\ Firsts(h)[p] = x THEN new
                                        ELSE Firsts(h)[j]
  BY <1>6, <1>8, <1>12
<1> QED
  BY <1>8, <1>9, <1>10, <1>14, <1>15, <1>16

(* Replacing puts the new item where the former one was, which is alone then. *)
THEOREM ReplaceImplemented ==
    ASSUME NEW K, NEW N, NEW h \in Heaps(K, N), NEW k, Shows(h, k),
           NEW p \in Items, NEW c \in 1..Len(k[p]),
           NEW new \in Items, NoChild(k, new)
    PROVE  LET h2 == Replaced(h, p, k[p][c], new)
               k2 == [k EXCEPT ![p] = Inserted(Without(@, c), c, new)]
           IN  h2 \in Heaps(K, N) /\ Relinked(h, k, h2, k2, p) /\ Shows(h2, k2)
<1> DEFINE s  == k[p]
           t  == Without(s, c)
           k1 == [k EXCEPT ![p] = Without(@, c)]
           x  == s[c]
           nx == Nexts(h)
           pv == Prevs(h)
           ch == Firsts(h)
           h4 == Replaced(h, p, x, new)
<1>1. Linking(nx, pv, ch, Refs(h), k)
  BY DEF Shows
<1>2. /\ NULL \notin Items /\ Len(s) \in Nat /\ s \in Seq(Items) /\ x \in Items
      /\ k \in [Items -> Seq(Items)] /\ Apart(k)
      /\ nx[x] = After(s, c) /\ pv[x] = Before(s, c)
      /\ \A n \in 1..Len(s) : s[n] \in Items /\ s[n] # NULL
  BY ShownFacts
<1>3. p \notin Refs(h)
  BY <1>1, LinkingFacts
<1>4. \A n \in 1..Len(s) : s[n] # new
  BY DEF NoChild, Elements
<1>5. x # new /\ \A m \in 1..Len(s) : s[m] = x => m = c
  BY <1>1, <1>4, LinkingFacts
<1>6. /\ nx \in [Items -> Pointers] /\ pv \in [Items -> Pointers]
      /\ ch \in [Items -> Pointers]
  BY PointerViews
<1>7. nx[x] \in Pointers /\ pv[x] \in Pointers
  BY <1>2, <1>6
<1>8. t \in Seq(Items) /\ Len(t) = Len(s) - 1
      /\ After(t, c - 1) = After(s, c) /\ Before(t, c) = Before(s, c)
      /\ c \in 1..(Len(t) + 1)
  <2>1. /\ t \in Seq(Items) /\ Len(t) = Len(s) - 1
        /\ \A n \in 1..(Len(s) - 1) : t[n] = IF n < c THEN s[n] ELSE s[n + 1]
    BY <1>2, WithoutList
  <2>2. After(t, c - 1) = After(s, c)
    BY <1>2, WithoutLinks
  <2> HIDE DEF t
  <2>3. Before(t, c) = Before(s, c)
    <3>1. c > 1 => c - 1 \in 1..(Len(s) - 1)
      BY <1>2
    <3> QED
      BY <2>1, <3>1 DEF Before
  <2> QED
    BY <1>2, <2>1, <2>2, <2>3
<1>9. Before(s, c) # x /\ After(s, c) # x /\ (ch[p] = x <=> c = 1)
  <2>1. c > 1 => c - 1 \in 1..Len(s)
    BY <1>2
  <2>2. c < Len(s) => c + 1 \in 1..Len(s)
    BY <1>2
  <2>3. ch[p] = After(s, 0)
    BY <1>3, ShownFacts
  <2>4. 1 \in 1..Len(s) /\ After(s, 0) = s[1]
    BY <1>2 DEF After
  <2>5. x # NULL
    BY <1>2
  <2>6. Before(s, c) # x
    BY <1>5, <2>1, <2>5 DEF Before
  <2>7. After(s, c) # x
    BY <1>5, <2>2, <2>5 DEF After
  <2>8. ch[p] = x <=> c = 1
    BY <1>5, <2>3, <2>4
  <2> QED
    BY <2>6, <2>7, <2>8
<1>15. x \in Items
  BY <1>2
<1> HIDE DEF x, h4
<1>13. /\ h4 \in Heaps(K, N) /\ OnlyLinks(h4, h)
       /\ \A j \in Items :
             Nexts(h4)[j] = IF j = x THEN NULL ELSE IF j = pv[x] THEN new
                            ELSE IF j = new THEN nx[x] ELSE nx[j]
       /\ \A j \in Items :
             Prevs(h4)[j] = IF j = x THEN NULL ELSE IF j = nx[x] THEN new
                            ELSE IF j = new THEN pv[x] ELSE pv[j]
       /\ \A j \in Items : Firsts(h4)[j] = IF j = p /\ ch[p] = x THEN new ELSE ch[j]
  <2>1. PICK forward \in Pointers : forward = Nexts(h)[x]
    BY <1>7
  <2>2. PICK back \in Pointers : back = Prevs(h)[x]
    BY <1>7
  <2>3. NULL \notin Items /\ x # new
    BY <1>2, <1>5
  <2> HIDE DEF nx, pv, ch
  <2>4. LET g == Replaced(h, p, x, new)
        IN  /\ g \in Heaps(K, N) /\ OnlyLinks(g, h)
            /\ \A j \in Items :
                  Nexts(g)[j] = IF j = x THEN NULL ELSE IF j = back THEN new
                                ELSE IF j = new THEN forward ELSE Nexts(h)[j]
            /\ \A j \in Items :
                  Prevs(g)[j] = IF j = x THEN NULL ELSE IF j = forward THEN new
                                ELSE IF j = new THEN back ELSE Prevs(h)[j]
            /\ \A j \in Items :
                  Firsts(g)[j] = IF j = p /\ Firsts(h)[p] = x THEN new
                                 ELSE Firsts(h)[j]
    <3>1. AreBeside(h, x, forward, back)
      BY <2>1, <2>2 DEF AreBeside
    <3> QED
      BY <1>15, <2>3, <3>1, ReplacedLinks
  <2> QED
    BY <2>1, <2>2, <2>4 DEF h4, nx, pv, ch
<1>14. OnlyLinks(h4, h)
  BY <1>13
<1> HIDE DEF nx, pv, ch
<1>16. \A j \in Items :
          Nexts(h4)[j] = IF j = x THEN NULL ELSE IF j = pv[x] THEN new
                         ELSE IF j = new THEN nx[x] ELSE nx[j]
  BY <1>13
<1>17. \A j \in Items :
          Prevs(h4)[j] = IF j = x THEN NULL ELSE IF j = nx[x] THEN new
                         ELSE IF j = new THEN pv[x] ELSE pv[j]
  BY <1>13
<1>18. \A j \in Items : Firsts(h4)[j] = IF j = p /\ c = 1 THEN new ELSE ch[j]
  BY <1>9, <1>13
(* The same, as taking out the one and inserting the other. *)
<1> DEFINE nx1 == [j \in Items |-> IF j = x THEN NULL ELSE IF j = pv[x] THEN nx[x] ELSE nx[j]]
           pv1 == [j \in Items |-> IF j = x THEN NULL ELSE IF j = nx[x] THEN pv[x] ELSE pv[j]]
           ch1 == [j \in Items |-> IF j = p /\ ch[p] = x THEN nx[x] ELSE ch[j]]
<1>19. /\ nx1 \in [Items -> Pointers] /\ pv1 \in [Items -> Pointers]
       /\ ch1 \in [Items -> Pointers]
  BY <1>6, <1>7 DEF Pointers
<1>20. Linking(nx1, pv1, ch1, Refs(h), k1)
  <2>1. x = k[p][c]
    BY DEF x
  <2>2. /\ \A j \in Items : nx1[j] = IF j = x THEN NULL ELSE IF j = pv[x] THEN nx[x] ELSE nx[j]
        /\ \A j \in Items : pv1[j] = IF j = x THEN NULL ELSE IF j = nx[x] THEN pv[x] ELSE pv[j]
        /\ \A j \in Items : ch1[j] = IF j = p /\ ch[p] = x THEN nx[x] ELSE ch[j]
    OBVIOUS
  <2> HIDE DEF nx1, pv1, ch1
  <2> QED
    BY <1>1, <1>19, <2>1, <2>2, LinkingWithout
<1>21. k1[p] = t /\ NoChild(k1, new)
  <2>1. k1[p] = t /\ \A q \in Items : q # p => k1[q] = k[q]
    BY <1>2
  <2>2. Elements(t) \subseteq Elements(s)
    BY <1>2, WithoutElements
  <2> QED
    BY <2>1, <2>2 DEF NoChild
<1>22. [k1 EXCEPT ![p] = Inserted(@, c, new)]
           = [k EXCEPT ![p] = Inserted(Without(@, c), c, new)]
  BY <1>2
<1>23. pv[x] # x /\ nx[x] # x /\ pv[x] # new /\ nx[x] # new
  <2>1. pv[x] = Before(s, c) /\ nx[x] = After(s, c)
    BY <1>2 DEF nx, pv, x
  <2>2. c > 1 => c - 1 \in 1..Len(s)
    BY <1>2
  <2>3. c < Len(s) => c + 1 \in 1..Len(s)
    BY <1>2
  <2>4. new # NULL
    BY <1>2
  <2>5. Before(s, c) # new
    BY <1>4, <2>2, <2>4 DEF Before
  <2>6. After(s, c) # new
    BY <1>4, <2>3, <2>4 DEF After
  <2> QED
    BY <1>9, <2>1, <2>5, <2>6
<1>24. pv[x] = Before(t, c) /\ nx[x] = After(t, c - 1)
  BY <1>2, <1>8 DEF nx, pv, x
<1>25. /\ \A j \in Items : Nexts(h4)[j] = IF j = new THEN After(t, c - 1)
                                          ELSE IF j = Before(t, c) THEN new ELSE nx1[j]
       /\ \A j \in Items : Prevs(h4)[j] = IF j = new THEN Before(t, c)
                                          ELSE IF j = After(t, c - 1) THEN new ELSE pv1[j]
       /\ \A j \in Items : Firsts(h4)[j] = IF j = p /\ c = 1 THEN new ELSE ch1[j]
  <2> HIDE DEF t
  <2>1. \A j \in Items : Nexts(h4)[j] = IF j = new THEN After(t, c - 1)
                                          ELSE IF j = Before(t, c) THEN new ELSE nx1[j]
    BY <1>5, <1>16, <1>23, <1>24
  <2>2. \A j \in Items : Prevs(h4)[j] = IF j = new THEN Before(t, c)
                                          ELSE IF j = After(t, c - 1) THEN new ELSE pv1[j]
    BY <1>5, <1>17, <1>23, <1>24
  <2>3. \A j \in Items : Firsts(h4)[j] = IF j = p /\ c = 1 THEN new ELSE ch1[j]
    BY <1>9, <1>18
  <2> QED
    BY <2>1, <2>2, <2>3
<1>26. /\ Nexts(h4) \in [Items -> Pointers] /\ Prevs(h4) \in [Items -> Pointers]
       /\ Firsts(h4) \in [Items -> Pointers]
  BY <1>13, PointerViews
<1> DEFINE nx4 == Nexts(h4)
           pv4 == Prevs(h4)
           ch4 == Firsts(h4)
<1>27. c \in 1..(Len(k1[p]) + 1)
  BY <1>8, <1>21
<1>28. /\ \A j \in Items : nx4[j] = IF j = new THEN After(k1[p], c - 1)
                                    ELSE IF j = Before(k1[p], c) THEN new ELSE nx1[j]
       /\ \A j \in Items : pv4[j] = IF j = new THEN Before(k1[p], c)
                                    ELSE IF j = After(k1[p], c - 1) THEN new ELSE pv1[j]
       /\ \A j \in Items : ch4[j] = IF j = p /\ c = 1 THEN new ELSE ch1[j]
  <2> HIDE DEF nx1, pv1, ch1, k1, t
  <2> QED
    BY <1>21, <1>25
<1>29. Linking(nx4, pv4, ch4, Refs(h), [k1 EXCEPT ![p] = Inserted(@, c, new)])
  <2> HIDE DEF nx1, pv1, ch1, nx4, pv4, ch4, k1
  <2> QED
    BY <1>3, <1>20, <1>21, <1>26, <1>27, <1>28, LinkingInserted DEF nx4, pv4, ch4
<1>30. Refs(h4) = Refs(h)
  BY <1>14, SameRefs
<1>31. Shows(h4, [k EXCEPT ![p] = Inserted(Without(@, c), c, new)])
  BY <1>22, <1>29, <1>30 DEF Shows
<1>32. h4 = Replaced(h, p, k[p][c], new)
  BY DEF h4, x
<1>33. \A j \in Items : j # p => Firsts(h4)[j] = Firsts(h)[j]
  BY <1>18 DEF ch
<1>34. Relinked(h, k, h4, [k EXCEPT ![p] = Inserted(Without(@, c), c, new)], p)
  BY <1>14, <1>33, ListRelinked
<1> QED
  BY <1>13, <1>31, <1>32, <1>34

-----------------------------------------------------------------------------
(* What a step makes of a state of S, from a on, is a sequence of states of S. *)
LEMMA Iterated ==
    ASSUME NEW S, NEW a \in S, NEW step \in [S -> S]
    PROVE  \E g \in [Nat -> S] : g[0] = a /\ \A n \in Nat : g[n + 1] = step[g[n]]
<1> DEFINE Begins(f, n) == /\ f \in [0..n -> S] /\ f[0] = a
                           /\ \A m \in 0..(n - 1) : f[m + 1] = step[f[m]]
           T == {n \in Nat : \E f : Begins(f, n)}
           Beginning(n) == CHOOSE f : Begins(f, n)
           g == [n \in Nat |-> Beginning(n)[n]]
<1>1. T = Nat
  <2>1. 0 \in T
    <3> DEFINE f == [m \in 0..0 |-> a]
    <3>1. Begins(f, 0)
      OBVIOUS
    <3> QED
      BY <3>1
  <2>2. ASSUME NEW n \in T PROVE n + 1 \in T
    <3>1. PICK f : Begins(f, n)
      OBVIOUS
    <3> DEFINE f2 == [m \in 0..(n + 1) |-> IF m <= n THEN f[m] ELSE step[f[n]]]
    <3>2. n \in Nat /\ f[n] \in S
      BY <3>1
    <3>3. f2 \in [0..(n + 1) -> S]
      <4> SUFFICES ASSUME NEW m \in 0..(n + 1)
                   PROVE  (IF m <= n THEN f[m] ELSE step[f[n]]) \in S
        OBVIOUS
      <4>1. CASE m <= n
        BY <3>1, <3>2, <4>1
      <4>2. CASE ~(m <= n)
        BY <3>2, <4>2
      <4> QED
        BY <4>1, <4>2
    <3>4. f2[0] = a
      BY <3>1, <3>2
    <3>5. ASSUME NEW m \in 0..((n + 1) - 1) PROVE f2[m + 1] = step[f2[m]]
      <4>1. CASE m < n
        <5>1. m \in 0..(n - 1) /\ m + 1 <= n /\ m <= n /\ m \in 0..(n + 1) /\ m + 1 \in 0..(n + 1)
          BY <3>2, <4>1
        <5> QED
          BY <3>1, <5>1
      <4>2. CASE m = n
        BY <3>2, <4>2
      <4> QED
        BY <3>2, <4>1, <4>2
    <3>6. Begins(f2, n + 1)
      BY <3>3, <3>4, <3>5
    <3>7. n + 1 \in Nat
      BY <3>2
    <3> HIDE DEF f2, Begins
    <3> QED
      BY <3>6, <3>7
  <2> HIDE DEF T
  <2>3. T \in SUBSET Nat
    BY DEF T
  <2> QED
    BY <2>1, <2>2, <2>3, SetInduction
<1>2. ASSUME NEW n \in Nat PROVE Begins(Beginning(n), n)
  <2>1. \E f : Begins(f, n)
    BY <1>1
  <2> HIDE DEF Begins
  <2> QED
    BY <2>1
<1> HIDE DEF Beginning
(* Two beginnings agree as far as they go. *)
<1>3. ASSUME NEW n \in Nat, NEW f, NEW e, Begins(f, n), Begins(e, n + 1)
      PROVE  f[n] = e[n]
  <2> DEFINE U == {m \in Nat : m <= n => f[m] = e[m]}
  <2>1. 0 \in U
    BY <1>3
  <2>2. ASSUME NEW m \in U PROVE m + 1 \in U
    <3>1. m \in Nat
      OBVIOUS
    <3>2. CASE m + 1 <= n
      <4>1. m \in 0..(n - 1) /\ m \in 0..((n + 1) - 1) /\ m <= n
        BY <3>1, <3>2
      <4>2. f[m] = e[m] /\ f[m + 1] = step[f[m]] /\ e[m + 1] = step[e[m]]
        BY <1>3, <4>1
      <4> QED
        BY <3>1, <4>2
    <3> QED
      BY <3>1, <3>2
  <2> HIDE DEF U
  <2>3. U \in SUBSET Nat
    BY DEF U
  <2>4. U = Nat
    BY <2>1, <2>2, <2>3, SetInduction
  <2> QED
    BY <2>4 DEF U
<1>4. g \in [Nat -> S]
  BY <1>2
<1>5. g[0] = a
  BY <1>2
<1>6. ASSUME NEW n \in Nat PROVE g[n + 1] = step[g[n]]
  <2>1. Begins(Beginning(n), n) /\ Begins(Beginning(n + 1), n + 1)
    BY <1>2
  <2>2. Beginning(n)[n] = Beginning(n + 1)[n]
    <3> HIDE DEF Begins
    <3> QED
      BY <1>3, <2>1
  <2>3. n \in 0..((n + 1) - 1)
    OBVIOUS
  <2>4. Beginning(n + 1)[n + 1] = step[Beginning(n + 1)[n]]
    BY <2>1, <2>3
  <2> QED
    BY <2>2, <2>4
<1> QED
  BY <1>4, <1>5, <1>6

-----------------------------------------------------------------------------
(* From i on, ow leads to the first item under another one and nx to the one  *)
(* behind it: no two ways lead to the same item, and they lead to all of G.   *)
Tied(ow, nx, G, i) ==
    /\ NULL \notin Items /\ i \in G /\ G \subseteq Items
    /\ ow \in [Items -> Pointers] /\ nx \in [Items -> Pointers]
    /\ \A x \in G : ow[x] \in G \cup {NULL} /\ nx[x] \in G \cup {NULL}
    /\ \A x, y \in Items : /\ ow[x] = ow[y] => x = y \/ ow[x] = NULL
                           /\ nx[x] = nx[y] => x = y \/ nx[x] = NULL
                           /\ ow[x] = nx[y] => ow[x] = NULL
    /\ \A x \in Items : ow[x] # i /\ nx[x] # i
    /\ \A S \in SUBSET Items :
          /\ i \in S
          /\ \A x \in S : ow[x] \in S \cup {NULL} /\ nx[x] \in S \cup {NULL}
          => G \subseteq S

(* On the way the items F are left behind, C wait for those under them, and   *)
(* cur is next.  Whatever was met was led to.                                *)
Walk(ow, nx, G, i, F, C, cur) ==
    /\ F \subseteq G /\ C \subseteq G /\ cur \in G \cup {NULL}
    /\ F \cap C = {} /\ cur \notin F \cup C
    /\ i \in F \cup C \cup {cur}
    /\ \A x \in F \cup C : ow[x] \in F \cup C \cup {cur, NULL}
    /\ \A x \in F : nx[x] \in F \cup C \cup {cur, NULL}
    /\ \A y \in F \cup C \cup {cur} :
          \/ y = i \/ y = NULL
          \/ \E x \in F \cup C : ow[x] = y
          \/ \E x \in F : nx[x] = y

LEMMA WalkDown ==
    ASSUME NEW ow, NEW nx, NEW G, NEW i, Tied(ow, nx, G, i),
           NEW F, NEW C, NEW cur, Walk(ow, nx, G, i, F, C, cur), cur # NULL
    PROVE  Walk(ow, nx, G, i, F, C \cup {cur}, ow[cur])
<1>1. cur \in G /\ cur \in Items /\ cur \notin F \cup C /\ F \cup C \subseteq Items
  BY DEF Walk, Tied
<1>2. ow[cur] \in G \cup {NULL}
  BY <1>1 DEF Tied
<1>3. ow[cur] \notin F \cup C \cup {cur}
  <2> SUFFICES ASSUME ow[cur] \in F \cup C \cup {cur} PROVE FALSE
    OBVIOUS
  <2>1. ow[cur] # NULL /\ ow[cur] # i
    BY <1>1 DEF Walk, Tied
  <2>2. (\E x \in F \cup C : ow[x] = ow[cur]) \/ (\E x \in F : nx[x] = ow[cur])
    BY <2>1 DEF Walk
  <2>3. ASSUME NEW x \in F \cup C, ow[x] = ow[cur] PROVE FALSE
    <3>1. x \in Items /\ x # cur
      BY <1>1
    <3> QED
      BY <1>1, <2>1, <2>3, <3>1 DEF Tied
  <2>4. ASSUME NEW x \in F, nx[x] = ow[cur] PROVE FALSE
    BY <1>1, <2>1, <2>4 DEF Tied
  <2> QED
    BY <2>2, <2>3, <2>4
<1> DEFINE C2 == C \cup {cur}
           to == ow[cur]
<1>4. /\ F \subseteq G /\ C2 \subseteq G /\ to \in G \cup {NULL}
      /\ F \cap C2 = {} /\ to \notin F \cup C2 /\ i \in F \cup C2 \cup {to}
  BY <1>1, <1>2, <1>3 DEF Walk
<1>5. \A x \in F \cup C2 : ow[x] \in F \cup C2 \cup {to, NULL}
  BY DEF Walk
<1>6. \A x \in F : nx[x] \in F \cup C2 \cup {to, NULL}
  BY DEF Walk
<1>7. ASSUME NEW y \in F \cup C2 \cup {to}
      PROVE  \/ y = i \/ y = NULL
             \/ \E x \in F \cup C2 : ow[x] = y
             \/ \E x \in F : nx[x] = y
  <2>1. CASE y = to
    BY <2>1
  <2>2. CASE y \in F \cup C \cup {cur}
    BY <2>2 DEF Walk
  <2> QED
    BY <2>1, <2>2
<1> HIDE DEF C2, to
<1>8. Walk(ow, nx, G, i, F, C2, to)
  BY <1>4, <1>5, <1>6, <1>7 DEF Walk
<1> QED
  BY <1>8 DEF C2, to

LEMMA WalkOn ==
    ASSUME NEW ow, NEW nx, NEW G, NEW i, Tied(ow, nx, G, i),
           NEW F, NEW C, Walk(ow, nx, G, i, F, C, NULL), NEW x \in C
    PROVE  Walk(ow, nx, G, i, F \cup {x}, C \ {x}, nx[x])
<1>1. x \in G /\ x \in Items /\ x \notin F /\ F \cup C \subseteq Items
  BY DEF Walk, Tied
<1> DEFINE F2 == F \cup {x}
           C2 == C \ {x}
           to == nx[x]
<1>2. F2 \cup C2 = F \cup C /\ F2 \cap C2 = {} /\ NULL \notin F \cup C
  BY <1>1 DEF Walk, Tied
<1>3. to \in G \cup {NULL}
  BY <1>1 DEF Tied
<1>4. to \notin F \cup C
  <2> SUFFICES ASSUME to \in F \cup C PROVE FALSE
    OBVIOUS
  <2>1. to # NULL /\ to # i
    BY <1>1 DEF Walk, Tied
  <2>2. (\E z \in F \cup C : ow[z] = to) \/ (\E z \in F : nx[z] = to)
    BY <2>1 DEF Walk
  <2>3. ASSUME NEW z \in F \cup C, ow[z] = to PROVE FALSE
    <3>1. z \in Items
      BY <1>1
    <3> QED
      BY <1>1, <2>1, <2>3, <3>1 DEF Tied
  <2>4. ASSUME NEW z \in F, nx[z] = to PROVE FALSE
    <3>1. z \in Items /\ z # x
      BY <1>1
    <3> QED
      BY <1>1, <2>1, <2>4, <3>1 DEF Tied
  <2> QED
    BY <2>2, <2>3, <2>4
<1>5. /\ F2 \subseteq G /\ C2 \subseteq G
      /\ i \in F2 \cup C2 \cup {to}
  BY <1>1, <1>2 DEF Walk, Tied
<1>6. \A y \in F2 \cup C2 : ow[y] \in F2 \cup C2 \cup {to, NULL}
  BY <1>2 DEF Walk
<1>7. \A y \in F2 : nx[y] \in F2 \cup C2 \cup {to, NULL}
  BY <1>2 DEF Walk
<1>8. ASSUME NEW y \in F2 \cup C2 \cup {to}
      PROVE  \/ y = i \/ y = NULL
             \/ \E z \in F2 \cup C2 : ow[z] = y
             \/ \E z \in F2 : nx[z] = y
  <2>1. CASE y = to
    BY <2>1
  <2>2. CASE y \in F \cup C
    BY <1>2, <2>2 DEF Walk
  <2> QED
    BY <1>2, <2>1, <2>2
<1> HIDE DEF F2, C2, to
<1>9. Walk(ow, nx, G, i, F2, C2, to)
  BY <1>2, <1>3, <1>4, <1>5, <1>6, <1>7, <1>8 DEF Walk
<1> QED
  BY <1>9 DEF F2, C2, to

LEMMA WalkEnds ==
    ASSUME NEW ow, NEW nx, NEW G, NEW i, Tied(ow, nx, G, i),
           NEW F, Walk(ow, nx, G, i, F, {}, NULL)
    PROVE  F = G
<1>1. F \subseteq G /\ F \in SUBSET Items /\ i \in F
  BY DEF Walk, Tied
<1>2. \A x \in F : ow[x] \in F \cup {NULL} /\ nx[x] \in F \cup {NULL}
  BY DEF Walk
<1> QED
  BY <1>1, <1>2 DEF Tied

(* The first item under each one: none under a reference. *)
Owned(h) == [j \in Items |-> IF h.at[j].isRef THEN NULL ELSE h.at[j].child]

LEMMA OwnedFirst ==
    ASSUME NEW K, NEW N, NEW h \in Heaps(K, N), NEW k, Shows(h, k), NEW p \in Items
    PROVE  /\ Owned(h)[p] = After(k[p], 0)
           /\ Owned(h)[p] = IF h.at[p].isRef THEN NULL ELSE h.at[p].child
<1>1. Owned(h)[p] = IF h.at[p].isRef THEN NULL ELSE h.at[p].child
  BY DEF Owned
<1>2. h.at[p].isRef \in BOOLEAN /\ Firsts(h)[p] = h.at[p].child
      /\ (p \in Refs(h) <=> h.at[p].isRef)
  BY PointerViews DEF Heaps, Cells, Refs
<1>3. CASE p \in Refs(h)
  <2>1. k[p] = <<>> /\ h.at[p].isRef
    BY <1>2, <1>3, ShownFacts
  <2>2. After(k[p], 0) = NULL
    BY <2>1 DEF After
  <2> QED
    BY <1>1, <2>1, <2>2
<1>4. CASE p \notin Refs(h)
  BY <1>1, <1>2, <1>4, ShownFacts
<1> QED
  BY <1>1, <1>3, <1>4

(* What is after the n-th of a list is the next one of that list. *)
LEMMA AfterInList ==
    ASSUME NEW k, k \in [Items -> Seq(Items)], NULL \notin Items,
           NEW p \in Items, NEW n \in 0..Len(k[p]), After(k[p], n) # NULL
    PROVE  /\ n + 1 \in 1..Len(k[p]) /\ After(k[p], n) = k[p][n + 1]
           /\ k[p][n + 1] \in Items
<1>1. k[p] \in Seq(Items) /\ Len(k[p]) \in Nat
  BY LenProperties
<1>2. n < Len(k[p]) /\ After(k[p], n) = k[p][n + 1]
  BY DEF After
<1>3. n + 1 \in 1..Len(k[p])
  BY <1>1, <1>2
<1> QED
  BY <1>1, <1>2, <1>3, LenProperties

LEMMA TreeTied ==
    ASSUME NEW K, NEW N, NEW h \in Heaps(K, N), NEW k, Shows(h, k),
           NEW i \in Items, NoChild(k, i)
    PROVE  Tied(Owned(h), Nexts(h), Tree(k, i), i)
<1> DEFINE ow == Owned(h)
           nx == Nexts(h)
           G  == Tree(k, i)
<1>1. /\ NULL \notin Items /\ k \in [Items -> Seq(Items)] /\ Apart(k)
  BY ShownFacts
<1>2. i \in G /\ G \subseteq Items
  BY TreeHasRoot
<1>3. ow \in [Items -> Pointers] /\ nx \in [Items -> Pointers]
  <2>1. nx \in [Items -> Pointers] /\ Firsts(h) \in [Items -> Pointers]
    BY PointerViews
  <2>2. \A j \in Items : Firsts(h)[j] = h.at[j].child
    BY PointerViews
  <2>3. \A j \in Items : (IF h.at[j].isRef THEN NULL ELSE h.at[j].child) \in Pointers
    BY <2>1, <2>2 DEF Pointers
  <2> QED
    BY <2>1, <2>3 DEF Owned
<1>4. \A p \in Items : ow[p] = After(k[p], 0)
  BY OwnedFirst
<1>5. \A p \in Items : \A n \in 1..Len(k[p]) : nx[k[p][n]] = After(k[p], n)
  BY ShownFacts
<1>6. \A j \in Items : nx[j] # NULL =>
         \E p \in Items : \E n \in 1..Len(k[p]) : j = k[p][n] /\ j \in Elements(k[p])
  <2> SUFFICES ASSUME NEW j \in Items, nx[j] # NULL
               PROVE  \E p \in Items : \E n \in 1..Len(k[p]) : j = k[p][n] /\ j \in Elements(k[p])
    OBVIOUS
  <2>1. ~ NoChild(k, j)
    BY ShownFacts
  <2> QED
    BY <2>1 DEF NoChild, Elements
<1>7. \A p \in Items : Len(k[p]) \in Nat
  BY <1>1, LenProperties
<1> HIDE DEF ow, nx, G
(* An item that ow leads to is the first of a list; one that nx leads to is   *)
(* behind another one.                                                      *)
<1>8. ASSUME NEW x \in Items, ow[x] # NULL
      PROVE  ow[x] = k[x][1] /\ 1 \in 1..Len(k[x]) /\ ow[x] \in Items
             /\ ow[x] \in Elements(k[x])
  <2>1. After(k[x], 0) # NULL /\ 0 \in 0..Len(k[x])
    BY <1>4, <1>7, <1>8
  <2>2. 0 + 1 \in 1..Len(k[x]) /\ After(k[x], 0) = k[x][0 + 1] /\ k[x][0 + 1] \in Items
    BY <1>1, <2>1, AfterInList
  <2> QED
    BY <1>4, <2>2 DEF Elements
<1>9. ASSUME NEW x \in Items, nx[x] # NULL
      PROVE  \E p \in Items : \E n \in 1..Len(k[p]) :
                /\ x = k[p][n] /\ x \in Elements(k[p]) /\ nx[x] = k[p][n + 1]
                /\ n + 1 \in 1..Len(k[p]) /\ nx[x] \in Items /\ nx[x] \in Elements(k[p])
  <2>5. PICK p \in Items : \E n \in 1..Len(k[p]) : x = k[p][n] /\ x \in Elements(k[p])
    BY <1>6, <1>9
  <2>1. PICK n \in 1..Len(k[p]) : x = k[p][n] /\ x \in Elements(k[p])
    BY <2>5
  <2>2. After(k[p], n) # NULL /\ nx[x] = After(k[p], n) /\ n \in 0..Len(k[p])
    BY <1>5, <1>7, <1>9, <2>1
  <2>3. n + 1 \in 1..Len(k[p]) /\ After(k[p], n) = k[p][n + 1] /\ k[p][n + 1] \in Items
    BY <1>1, <2>2, AfterInList
  <2>4. k[p][n + 1] \in Elements(k[p])
    BY <2>3 DEF Elements
  <2> QED
    BY <2>1, <2>2, <2>3, <2>4
<1>10. ASSUME NEW x \in G PROVE ow[x] \in G \cup {NULL} /\ nx[x] \in G \cup {NULL}
  <2>1. x \in Items
    BY <1>2
  <2>5. Elements(k[x]) \subseteq G
    BY <1>1, TreeClosed DEF G
  <2>2. ow[x] \in G \cup {NULL}
    BY <1>8, <2>1, <2>5
  <2>3. ASSUME nx[x] # NULL PROVE nx[x] \in G
    <3>6. PICK p \in Items : \E n \in 1..Len(k[p]) :
              /\ x = k[p][n] /\ x \in Elements(k[p]) /\ nx[x] = k[p][n + 1]
              /\ n + 1 \in 1..Len(k[p]) /\ nx[x] \in Items /\ nx[x] \in Elements(k[p])
      BY <1>9, <2>1, <2>3
    <3>1. PICK n \in 1..Len(k[p]) :
              /\ x = k[p][n] /\ x \in Elements(k[p]) /\ nx[x] = k[p][n + 1]
              /\ n + 1 \in 1..Len(k[p]) /\ nx[x] \in Items /\ nx[x] \in Elements(k[p])
      BY <3>6
    <3>2. x # i
      BY <3>1 DEF NoChild
    <3>3. PICK q \in G : x \in Elements(k[q])
      BY <1>1, <3>2, TreeParent DEF G
    <3>4. q = p
      <4>1. PICK m \in 1..Len(k[q]) : x = k[q][m]
        BY <3>3 DEF Elements
      <4>2. q \in Items /\ k[q][m] = k[p][n]
        BY <1>2, <3>1, <4>1
      <4> QED
        BY <1>1, <4>2 DEF Apart
    <3>5. Elements(k[p]) \subseteq G
      BY <1>1, <3>3, <3>4, TreeClosed DEF G
    <3> QED
      BY <3>1, <3>5
  <2> QED
    BY <2>2, <2>3
<1>11. ASSUME NEW x \in Items, NEW y \in Items
       PROVE  /\ ow[x] = ow[y] => x = y \/ ow[x] = NULL
              /\ nx[x] = nx[y] => x = y \/ nx[x] = NULL
              /\ ow[x] = nx[y] => ow[x] = NULL
  <2>1. ASSUME ow[x] = ow[y], ow[x] # NULL PROVE x = y
    <3>1. k[x][1] = k[y][1] /\ 1 \in 1..Len(k[x]) /\ 1 \in 1..Len(k[y])
      BY <1>8, <2>1
    <3> QED
      BY <1>1, <3>1 DEF Apart
  <2>2. ASSUME nx[x] = nx[y], nx[x] # NULL PROVE x = y
    <3>5. PICK p \in Items : \E n \in 1..Len(k[p]) :
              x = k[p][n] /\ nx[x] = k[p][n + 1] /\ n + 1 \in 1..Len(k[p])
      BY <1>9, <2>2
    <3>1. PICK n \in 1..Len(k[p]) :
              x = k[p][n] /\ nx[x] = k[p][n + 1] /\ n + 1 \in 1..Len(k[p])
      BY <3>5
    <3>6. PICK q \in Items : \E m \in 1..Len(k[q]) :
              y = k[q][m] /\ nx[y] = k[q][m + 1] /\ m + 1 \in 1..Len(k[q])
      BY <1>9, <2>2
    <3>2. PICK m \in 1..Len(k[q]) :
              y = k[q][m] /\ nx[y] = k[q][m + 1] /\ m + 1 \in 1..Len(k[q])
      BY <3>6
    <3>3. p = q /\ n + 1 = m + 1
      BY <1>1, <2>2, <3>1, <3>2 DEF Apart
    <3>4. n = m
      BY <1>7, <3>3
    <3> QED
      BY <3>1, <3>2, <3>3, <3>4
  <2>3. ASSUME ow[x] = nx[y], ow[x] # NULL PROVE FALSE
    <3>1. k[x][1] = ow[x] /\ 1 \in 1..Len(k[x])
      BY <1>8, <2>3
    <3>6. PICK q \in Items : \E m \in 1..Len(k[q]) :
              y = k[q][m] /\ nx[y] = k[q][m + 1] /\ m + 1 \in 1..Len(k[q])
      BY <1>9, <2>3
    <3>2. PICK m \in 1..Len(k[q]) :
              y = k[q][m] /\ nx[y] = k[q][m + 1] /\ m + 1 \in 1..Len(k[q])
      BY <3>6
    <3>4. k[x][1] = k[q][m + 1]
      BY <2>3, <3>1, <3>2
    <3>5. PICK a, b : a = 1 /\ b = m + 1
      OBVIOUS
    <3>3. a = b
      <4>1. a \in 1..Len(k[x]) /\ b \in 1..Len(k[q]) /\ k[x][a] = k[q][b]
        BY <3>1, <3>2, <3>4, <3>5
      <4> QED
        BY <1>1, <4>1 DEF Apart
    <3>7. m + 1 # 1
      BY <1>7
    <3> QED
      BY <3>3, <3>5, <3>7
  <2> QED
    BY <2>1, <2>2, <2>3
<1>12. ASSUME NEW x \in Items PROVE ow[x] # i /\ nx[x] # i
  <2>1. i # NULL
    BY <1>1
  <2>2. ow[x] # i
    BY <1>8, <2>1 DEF NoChild
  <2>3. nx[x] # i
    BY <1>9, <2>1 DEF NoChild
  <2> QED
    BY <2>2, <2>3
<1>13. ASSUME NEW S \in SUBSET Items, i \in S,
              \A x \in S : ow[x] \in S \cup {NULL} /\ nx[x] \in S \cup {NULL}
       PROVE  G \subseteq S
  <2>1. ASSUME NEW p \in S PROVE Elements(k[p]) \subseteq S
    <3> DEFINE T == {n \in Nat : n + 1 \in 1..Len(k[p]) => k[p][n + 1] \in S}
    <3>1. p \in Items
      OBVIOUS
    <3>2. 0 \in T
      <4> SUFFICES ASSUME 0 + 1 \in 1..Len(k[p]) PROVE k[p][1] \in S
        OBVIOUS
      <4>1. ow[p] = k[p][1] /\ k[p][1] \in Items
        <5>1. 0 < Len(k[p])
          BY <1>7, <3>1
        <5> QED
          BY <1>1, <1>4, <3>1, <5>1, LenProperties DEF After
      <4>2. k[p][1] # NULL
        BY <1>1, <4>1
      <4> QED
        BY <1>13, <4>1, <4>2
    <3>3. ASSUME NEW n \in T PROVE n + 1 \in T
      <4>1. n \in Nat /\ n + 1 \in Nat
        OBVIOUS
      <4> SUFFICES ASSUME (n + 1) + 1 \in 1..Len(k[p]) PROVE k[p][(n + 1) + 1] \in S
        BY <4>1
      <4>2. n + 1 \in 1..Len(k[p]) /\ n + 1 < Len(k[p])
        BY <1>7, <3>1, <4>1
      <4>3. k[p][n + 1] \in S
        BY <4>2
      <4>4. nx[k[p][n + 1]] = k[p][(n + 1) + 1]
        BY <1>5, <3>1, <4>2 DEF After
      <4>5. k[p][(n + 1) + 1] # NULL
        BY <1>1, <3>1, LenProperties
      <4> QED
        BY <1>13, <4>3, <4>4, <4>5
    <3>4. T \in SUBSET Nat
      OBVIOUS
    <3> HIDE DEF T
    <3>5. T = Nat
      BY <3>2, <3>3, <3>4, SetInduction
    <3>6. ASSUME NEW m \in 1..Len(k[p]) PROVE k[p][m] \in S
      <4>1. m - 1 \in Nat /\ (m - 1) + 1 = m
        BY <1>7, <3>1
      <4>2. m - 1 \in T
        BY <3>5, <4>1
      <4> QED
        BY <4>1, <4>2 DEF T
    <3> QED
      BY <3>6 DEF Elements
  <2>2. Closed(k, S)
    BY <2>1 DEF Closed
  <2> QED
    BY <1>13, <2>2, TreeLeast DEF G
<1>14. Tied(ow, nx, G, i)
  BY <1>1, <1>2, <1>3, <1>10, <1>11, <1>12, <1>13 DEF Tied
<1> QED
  BY <1>14 DEF ow, nx, G

-----------------------------------------------------------------------------
(* The blocks of memory of a heap are counted, item by item.                *)
Counted(h) == h.live = Cardinality(Blocks(h.at))

SizeOf(it) == IF it.type = "Freed" THEN 0 ELSE BlocksOf(it)

BlocksOfItem(x, it) ==
    {block \in {x} \X {"item", "text", "name"} :
        /\ it.type # "Freed"
        /\ block[2] = "text" => OwnsText(it)
        /\ block[2] = "name" => OwnsName(it)}

LEMMA SizeCounted ==
    ASSUME NEW x, NEW it, OwnsText(it) \in BOOLEAN, OwnsName(it) \in BOOLEAN
    PROVE  /\ IsFiniteSet(BlocksOfItem(x, it))
           /\ Cardinality(BlocksOfItem(x, it)) = SizeOf(it)
<1> DEFINE one   == {<<x, "item">>}
           text  == <<x, "text">>
           name  == <<x, "name">>
           B     == BlocksOfItem(x, it)
           T     == OwnsText(it)
           M     == OwnsName(it)
<1>1. IsFiniteSet(one) /\ Cardinality(one) = 1
  BY FS_Singleton
<1>2. text \notin one /\ name \notin one \cup {text} /\ name \notin one
  OBVIOUS
<1>3. IsFiniteSet({}) /\ Cardinality({}) = 0
  BY FS_EmptySet
<1>4. BlocksOf(it) = 1 + (IF T THEN 1 ELSE 0) + (IF M THEN 1 ELSE 0)
  BY DEF BlocksOf
<1>5. it.type = "Freed" => B = {}
  BY DEF BlocksOfItem
<1>6. it.type # "Freed" =>
         B = one \cup (IF T THEN {text} ELSE {}) \cup (IF M THEN {name} ELSE {})
  BY DEF BlocksOfItem
<1> HIDE DEF one, text, name, B, T, M
<1>7. IsFiniteSet(one \cup {text}) /\ Cardinality(one \cup {text}) = 2
  BY <1>1, <1>2, FS_AddElement
<1>8. IsFiniteSet(one \cup {name}) /\ Cardinality(one \cup {name}) = 2
  BY <1>1, <1>2, FS_AddElement
<1>9. IsFiniteSet((one \cup {text}) \cup {name}) /\ Cardinality((one \cup {text}) \cup {name}) = 3
  BY <1>2, <1>7, FS_AddElement
<1>10. CASE it.type = "Freed"
  BY <1>3, <1>5, <1>10 DEF SizeOf, B
<1>11. CASE it.type # "Freed"
  <2>1. CASE T /\ M
    <3>1. B = (one \cup {text}) \cup {name}
      BY <1>6, <1>11, <2>1
    <3> QED
      BY <1>4, <1>9, <1>11, <2>1, <3>1 DEF SizeOf, B
  <2>2. CASE T /\ ~ M
    <3>1. B = one \cup {text}
      BY <1>6, <1>11, <2>2
    <3> QED
      BY <1>4, <1>7, <1>11, <2>2, <3>1 DEF SizeOf, B
  <2>3. CASE ~ T /\ M
    <3>1. B = one \cup {name}
      BY <1>6, <1>11, <2>3
    <3> QED
      BY <1>4, <1>8, <1>11, <2>3, <3>1 DEF SizeOf, B
  <2>4. CASE ~ T /\ ~ M
    <3>1. B = one
      BY <1>6, <1>11, <2>4
    <3> QED
      BY <1>1, <1>4, <1>11, <2>4, <3>1 DEF SizeOf, B
  <2> QED
    BY <2>1, <2>2, <2>3, <2>4 DEF T, M
<1> QED
  BY <1>10, <1>11

LEMMA BlocksFinite ==
    ASSUME IsFiniteSet(Items), NEW c, DOMAIN c = Items
    PROVE  IsFiniteSet(Blocks(c)) /\ Cardinality(Blocks(c)) \in Nat
<1> DEFINE names == {"item", "text", "name"}
<1>1. IsFiniteSet(names)
  <2>1. IsFiniteSet({"item"})
    BY FS_Singleton
  <2>2. IsFiniteSet({"item"} \cup {"text"})
    BY <2>1, FS_AddElement
  <2>3. IsFiniteSet(({"item"} \cup {"text"}) \cup {"name"})
    BY <2>2, FS_AddElement
  <2>4. names = ({"item"} \cup {"text"}) \cup {"name"}
    OBVIOUS
  <2> QED
    BY <2>3, <2>4
<1> HIDE DEF names
<1>2. IsFiniteSet(Items \X names)
  BY <1>1, FS_Product
<1>3. Blocks(c) \in SUBSET (Items \X names)
  BY DEF Blocks, names
<1>4. IsFiniteSet(Blocks(c))
  BY <1>2, <1>3, FS_Subset
<1> QED
  BY <1>4, FS_CardinalityType

LEMMA CellFlags ==
    ASSUME NEW K, NEW N, NEW c \in Cells(K, N)
    PROVE  OwnsText(c) \in BOOLEAN /\ OwnsName(c) \in BOOLEAN
BY DEF Cells, OwnsText, OwnsName

(* An item that becomes another one changes the count by its own blocks. *)
LEMMA OneCounted ==
    ASSUME IsFiniteSet(Items), NEW K, NEW N, NEW c \in [Items -> Cells(K, N)],
           NEW x \in Items, NEW new \in Cells(K, N)
    PROVE  Cardinality(Blocks([c EXCEPT ![x] = new]))
              = Cardinality(Blocks(c)) - SizeOf(c[x]) + SizeOf(new)
<1> DEFINE c2   == [c EXCEPT ![x] = new]
           rest == {block \in Blocks(c) : block[1] # x}
           own  == BlocksOfItem(x, c[x])
           own2 == BlocksOfItem(x, new)
<1>1. DOMAIN c = Items /\ DOMAIN c2 = Items /\ c[x] \in Cells(K, N) /\ c2[x] = new
      /\ \A j \in Items : j # x => c2[j] = c[j]
  OBVIOUS
<1>2. Blocks(c) = rest \cup own
  BY <1>1 DEF Blocks, BlocksOfItem
<1>3. Blocks(c2) = rest \cup own2
  <2> HIDE DEF c2
  <2> QED
    BY <1>1 DEF Blocks, BlocksOfItem
<1>4. rest \cap own = {} /\ rest \cap own2 = {}
  BY DEF BlocksOfItem
<1>5. /\ IsFiniteSet(own) /\ Cardinality(own) = SizeOf(c[x])
      /\ IsFiniteSet(own2) /\ Cardinality(own2) = SizeOf(new)
  BY <1>1, CellFlags, SizeCounted
<1>6. IsFiniteSet(Blocks(c))
  BY <1>1, BlocksFinite
<1>7. rest \in SUBSET Blocks(c)
  OBVIOUS
<1>8. IsFiniteSet(rest)
  BY <1>6, <1>7, FS_Subset
<1> HIDE DEF c2, rest, own, own2
<1>9. /\ Cardinality(rest) \in Nat /\ Cardinality(own) \in Nat
      /\ Cardinality(own2) \in Nat /\ Cardinality({}) = 0
  BY <1>5, <1>8, FS_CardinalityType, FS_EmptySet
<1>10. Cardinality(rest \cup own) = Cardinality(rest) + Cardinality(own) - Cardinality(rest \cap own)
  BY <1>5, <1>8, FS_Union
<1>11. Cardinality(rest \cup own2) = Cardinality(rest) + Cardinality(own2) - Cardinality(rest \cap own2)
  BY <1>5, <1>8, FS_Union
<1>14. Cardinality(rest \cap own) = 0 /\ Cardinality(rest \cap own2) = 0
  BY <1>4, <1>9
<1>15. /\ Cardinality(rest \cup own) = Cardinality(rest) + Cardinality(own)
       /\ Cardinality(rest \cup own2) = Cardinality(rest) + Cardinality(own2)
  BY <1>9, <1>10, <1>11, <1>14
<1>12. /\ Cardinality(Blocks(c)) = Cardinality(rest) + Cardinality(own)
       /\ Cardinality(Blocks(c2)) = Cardinality(rest) + Cardinality(own2)
  BY <1>2, <1>3, <1>15
<1>13. Cardinality(Blocks(c2)) = Cardinality(Blocks(c)) - SizeOf(c[x]) + SizeOf(new)
  BY <1>5, <1>9, <1>12
<1> QED
  BY <1>13 DEF c2

(* Changes of the pointers alone leave the count.                           *)
LEMMA LinksCounted ==
    ASSUME NEW K, NEW N, NEW h \in Heaps(K, N), NEW h2 \in Heaps(K, N),
           OnlyLinks(h2, h), Counted(h)
    PROVE  Counted(h2)
<1>1. DOMAIN h.at = Items /\ DOMAIN h2.at = Items
  BY DEF Heaps
<1>2. \A j \in Items : /\ h2.at[j].type = h.at[j].type
                       /\ OwnsText(h2.at[j]) = OwnsText(h.at[j])
                       /\ OwnsName(h2.at[j]) = OwnsName(h.at[j])
  BY DEF OnlyLinks, OwnsText, OwnsName
<1>3. Blocks(h2.at) = Blocks(h.at)
  BY <1>1, <1>2 DEF Blocks
<1> QED
  BY <1>3 DEF Counted, OnlyLinks

-----------------------------------------------------------------------------
(* The items in use, and what is true of them between two calls: k are the    *)
(* lists their pointers show, r the ones that are in no list.                *)
Kinds == {"Freed", "True", "String", "Array", "Object"}
AllNames == Names \cup ConstNames \cup {NULL}

Live(h) == {j \in Items : h.at[j].type # "Freed"}

Sound(h, k, r) ==
    /\ h \in Heaps(Kinds, AllNames)
    /\ Shows(h, k)
    /\ IsForest(Live(h), k, r)
    /\ Counted(h)
    /\ \A j \in Items \ Live(h) : h.at[j] = Freed

LEMMA FreedIsCell == Freed \in Cells(Kinds, AllNames) /\ SizeOf(Freed) = 0
BY DEF Freed, Struct, Cells, Kinds, AllNames, Pointers, SizeOf

-----------------------------------------------------------------------------
(* The calls under way, the last one at the end. *)
Caller == [item : Items, next : Pointers]

LEMMA Pushed ==
    ASSUME NEW S, NEW s \in Seq(S), NEW e \in S
    PROVE  /\ Append(s, e) \in Seq(S) /\ Len(Append(s, e)) = Len(s) + 1
           /\ Len(s) \in Nat
           /\ \A n \in 1..(Len(s) + 1) :
                 Append(s, e)[n] = IF n = Len(s) + 1 THEN e ELSE s[n]
<1>1. /\ Append(s, e) \in Seq(S) /\ Len(Append(s, e)) = Len(s) + 1
      /\ Append(s, e)[Len(s) + 1] = e /\ \A n \in 1..Len(s) : Append(s, e)[n] = s[n]
  BY AppendProperties
<1>2. Len(s) \in Nat
  BY LenProperties
<1>3. \A n \in 1..(Len(s) + 1) : n = Len(s) + 1 \/ n \in 1..Len(s)
  BY <1>2
<1> QED
  BY <1>1, <1>2, <1>3

LEMMA Popped ==
    ASSUME NEW S, NEW s \in Seq(S), s # <<>>
    PROVE  /\ Front(s) \in Seq(S) /\ Len(Front(s)) = Len(s) - 1
           /\ Len(s) \in Nat /\ Len(s) >= 1
           /\ LastOf(s) \in S /\ LastOf(s) = s[Len(s)]
           /\ \A n \in 1..(Len(s) - 1) : Front(s)[n] = s[n]
<1>1. Len(s) \in Nat /\ Len(s) # 0 /\ \A n \in 1..Len(s) : s[n] \in S
  BY EmptySeq, LenProperties, ElementOfSeq
<1>2. Len(s) >= 1 /\ Len(s) - 1 \in Nat /\ 1 \in Int /\ Len(s) - 1 \in Int
      /\ Len(s) \in 1..Len(s)
  BY <1>1
<1>3. \A n \in 1..(Len(s) - 1) : s[n] \in S
  BY <1>1
<1>4. /\ SubSeq(s, 1, Len(s) - 1) \in Seq(S)
      /\ Len(SubSeq(s, 1, Len(s) - 1)) =
            IF 1 <= Len(s) - 1 THEN (Len(s) - 1) - 1 + 1 ELSE 0
      /\ \A n \in 1..((Len(s) - 1) - 1 + 1) : SubSeq(s, 1, Len(s) - 1)[n] = s[1 + n - 1]
  BY <1>2, <1>3, SubSeqProperties
<1>5. Len(Front(s)) = Len(s) - 1
  <2> DEFINE l == Len(s)
  <2>1. l \in Nat /\ l >= 1 /\ Len(Front(s)) = IF 1 <= l - 1 THEN (l - 1) - 1 + 1 ELSE 0
    BY <1>1, <1>2, <1>4 DEF Front
  <2> HIDE DEF l
  <2>2. Len(Front(s)) = l - 1
    BY <2>1
  <2> QED
    BY <2>2 DEF l
<1>6. \A n \in 1..(Len(s) - 1) : Front(s)[n] = s[n]
  BY <1>1, <1>2, <1>4 DEF Front
<1> QED
  BY <1>1, <1>2, <1>4, <1>5, <1>6 DEF Front, LastOf

ItemsOf(s) == {s[n].item : n \in 1..Len(s)}

EachOnce(s) == \A m, n \in 1..Len(s) : s[m].item = s[n].item => m = n

LEMMA CallerPushed ==
    ASSUME NEW S, NEW s \in Seq(S), NEW e \in S, EachOnce(s), e.item \notin ItemsOf(s)
    PROVE  /\ ItemsOf(Append(s, e)) = ItemsOf(s) \cup {e.item}
           /\ EachOnce(Append(s, e))
<1> DEFINE t == Append(s, e)
<1>1. /\ Len(s) \in Nat /\ Len(t) = Len(s) + 1
      /\ \A n \in 1..(Len(s) + 1) : t[n] = IF n = Len(s) + 1 THEN e ELSE s[n]
  BY Pushed
<1> HIDE DEF t
<1>2. ItemsOf(t) \subseteq ItemsOf(s) \cup {e.item}
  <2> SUFFICES ASSUME NEW n \in 1..Len(t) PROVE t[n].item \in ItemsOf(s) \cup {e.item}
    BY DEF ItemsOf
  <2>1. n = Len(s) + 1 \/ n \in 1..Len(s)
    BY <1>1
  <2> QED
    BY <1>1, <2>1 DEF ItemsOf
<1>3. ItemsOf(s) \cup {e.item} \subseteq ItemsOf(t)
  <2>1. Len(s) + 1 \in 1..Len(t) /\ t[Len(s) + 1] = e
    BY <1>1
  <2>2. \A n \in 1..Len(s) : n \in 1..Len(t) /\ t[n] = s[n]
    BY <1>1
  <2> QED
    BY <2>1, <2>2 DEF ItemsOf
<1>4. EachOnce(t)
  <2> SUFFICES ASSUME NEW m \in 1..Len(t), NEW n \in 1..Len(t), t[m].item = t[n].item
               PROVE  m = n
    BY DEF EachOnce
  <2>1. /\ m = Len(s) + 1 \/ (m \in 1..Len(s) /\ t[m] = s[m])
        /\ n = Len(s) + 1 \/ (n \in 1..Len(s) /\ t[n] = s[n])
        /\ t[Len(s) + 1] = e
    BY <1>1
  <2>2. \A c \in 1..Len(s) : s[c].item # e.item
    BY DEF ItemsOf
  <2> QED
    BY <2>1, <2>2 DEF EachOnce
<1> QED
  BY <1>2, <1>3, <1>4 DEF t

LEMMA CallerPopped ==
    ASSUME NEW S, NEW s \in Seq(S), s # <<>>, EachOnce(s)
    PROVE  /\ ItemsOf(Front(s)) = ItemsOf(s) \ {LastOf(s).item}
           /\ LastOf(s).item \in ItemsOf(s)
           /\ EachOnce(Front(s))
<1> DEFINE t == Front(s)
           last == LastOf(s)
<1>1. /\ Len(s) \in Nat /\ Len(s) >= 1 /\ Len(t) = Len(s) - 1
      /\ last = s[Len(s)]
      /\ \A n \in 1..(Len(s) - 1) : t[n] = s[n]
  BY Popped
<1> HIDE DEF t, last
<1>2. /\ Len(s) \in 1..Len(s) /\ \A n \in 1..Len(t) : n \in 1..Len(s) /\ n # Len(s) /\ t[n] = s[n]
      /\ \A n \in 1..Len(s) : n # Len(s) => n \in 1..Len(t)
  BY <1>1
<1>3. last.item \in ItemsOf(s)
  BY <1>1, <1>2 DEF ItemsOf
<1>4. ItemsOf(t) \subseteq ItemsOf(s) \ {last.item}
  BY <1>1, <1>2 DEF ItemsOf, EachOnce
<1>5. ItemsOf(s) \ {last.item} \subseteq ItemsOf(t)
  <2> SUFFICES ASSUME NEW n \in 1..Len(s), s[n].item # last.item
               PROVE  s[n].item \in ItemsOf(t)
    BY DEF ItemsOf
  <2>1. n \in 1..Len(t) /\ t[n] = s[n]
    BY <1>1, <1>2
  <2> QED
    BY <2>1 DEF ItemsOf
<1>6. EachOnce(t)
  BY <1>2 DEF EachOnce
<1> QED
  BY <1>3, <1>4, <1>5, <1>6 DEF t, last

-----------------------------------------------------------------------------
(* The item x is given back. *)
FreedAt(h, x) ==
    [h EXCEPT !.at[x] = Freed, !.live = @ - BlocksOf(h.at[x])]

LEMMA FreedAtFacts ==
    ASSUME IsFiniteSet(Items), NEW h \in Heaps(Kinds, AllNames), Counted(h),
           NEW x \in Items, h.at[x].type # "Freed"
    PROVE  /\ FreedAt(h, x) \in Heaps(Kinds, AllNames)
           /\ FreedAt(h, x).allocs = h.allocs
           /\ FreedAt(h, x).at = [h.at EXCEPT ![x] = Freed]
           /\ Counted(FreedAt(h, x))
<1> DEFINE h2 == FreedAt(h, x)
           B  == BlocksOf(h.at[x])
<1>1. h.at \in [Items -> Cells(Kinds, AllNames)] /\ h.live \in Int
  BY DEF Heaps
<1>2. B = SizeOf(h.at[x]) /\ B \in Int
  BY DEF SizeOf, BlocksOf
<1> HIDE DEF B
<1>3. h2 = [at |-> [h.at EXCEPT ![x] = Freed], live |-> h.live - B, allocs |-> h.allocs]
  <2>1. h = [at |-> h.at, live |-> h.live, allocs |-> h.allocs]
    BY DEF Heaps
  <2>2. h2 = [h EXCEPT !.at[x] = Freed, !.live = @ - B]
    BY DEF FreedAt, B
  <2> HIDE DEF h2
  <2> QED
    BY <2>1, <2>2
<1>4. h2.at = [h.at EXCEPT ![x] = Freed] /\ h2.live = h.live - B /\ h2.allocs = h.allocs
  BY <1>3
<1>5. h2 \in Heaps(Kinds, AllNames)
  <2>1. [h.at EXCEPT ![x] = Freed] \in [Items -> Cells(Kinds, AllNames)]
    BY <1>1, FreedIsCell
  <2>2. h.live - B \in Int /\ h.allocs \in Int
    BY <1>1, <1>2 DEF Heaps
  <2> QED
    BY <1>3, <2>1, <2>2 DEF Heaps
<1>6. Cardinality(Blocks(h2.at)) = Cardinality(Blocks(h.at)) - SizeOf(h.at[x]) + SizeOf(Freed)
  BY <1>1, <1>4, FreedIsCell, OneCounted
<1>7. Counted(h2)
  <2>1. SizeOf(Freed) = 0 /\ h.live = Cardinality(Blocks(h.at))
    BY FreedIsCell DEF Counted
  <2> HIDE DEF h2
  <2> QED
    BY <1>1, <1>2, <1>4, <1>6, <2>1 DEF Counted
<1> QED
  BY <1>4, <1>5, <1>7

-----------------------------------------------------------------------------
(* cJSON_Delete on its way through the items G that are in use in h: those it  *)
(* has given back, and the calls that wait.                                  *)
Deletions == [h : Heaps(Kinds, AllNames), item : Pointers, callers : Seq(Caller)]

Gone(G, d) == {j \in G : d.h.at[j].type = "Freed"}

Deleting(h, G, i, d) ==
    /\ d \in Deletions
    /\ d.h.allocs = h.allocs
    /\ \A j \in Items : d.h.at[j] = IF j \in Gone(G, d) THEN Freed ELSE h.at[j]
    /\ Counted(d.h)
    /\ EachOnce(d.callers)
    /\ \A n \in 1..Len(d.callers) : d.callers[n].next = Nexts(h)[d.callers[n].item]
    /\ Walk(Owned(h), Nexts(h), G, i, Gone(G, d), ItemsOf(d.callers), d.item)

Met(G, d) == Gone(G, d) \cup ItemsOf(d.callers)

(* How many steps are left at most. *)
Left(G, d) == 2 * Cardinality(Items \ Met(G, d)) + Len(d.callers)

LEMMA DeleteGoesDown ==
    ASSUME IsFiniteSet(Items), NEW h \in Heaps(Kinds, AllNames), NEW G, NEW i,
           Tied(Owned(h), Nexts(h), G, i),
           NEW d, Deleting(h, G, i, d), d.item # NULL
    PROVE  /\ Deleting(h, G, i, DeleteStep(d))
           /\ Left(G, DeleteStep(d)) = Left(G, d) - 1
<1> DEFINE x  == d.item
           s  == d.callers
           e  == [item |-> x, next |-> d.h.at[x].next]
           d2 == DeleteStep(d)
           F  == Gone(G, d)
           C  == ItemsOf(s)
<1>1. /\ x \in Items /\ x \in G /\ s \in Seq(Caller) /\ x \notin F \cup C
      /\ d.h \in Heaps(Kinds, AllNames) /\ G \subseteq Items
  BY DEF Deleting, Deletions, Walk, Tied, Pointers
<1>2. d.h.at[x] = h.at[x]
  BY <1>1 DEF Deleting
<1>3. e \in Caller /\ e.item = x /\ e.next = Nexts(h)[x]
  <2>1. h.at[x].next = Nexts(h)[x] /\ Nexts(h)[x] \in Pointers
    BY <1>1, PointerViews
  <2> QED
    BY <1>1, <1>2, <2>1 DEF Caller
<1>4. /\ d2.h = d.h /\ d2.callers = Append(s, e) /\ d2.item = Owned(h)[x]
      /\ d2 \in Deletions
  <2>1. d2 = [d EXCEPT !.item = IF d.h.at[x].isRef THEN NULL ELSE d.h.at[x].child,
                       !.callers = Append(s, e)]
    BY DEF DeleteStep
  <2>2. (IF d.h.at[x].isRef THEN NULL ELSE d.h.at[x].child) = Owned(h)[x]
    BY <1>1, <1>2 DEF Owned
  <2>3. Owned(h)[x] \in Pointers
    BY <1>1 DEF Tied
  <2>4. Append(s, e) \in Seq(Caller)
    BY <1>1, <1>3, Pushed
  <2> HIDE DEF d2, e
  <2>5. d \in Deletions
    BY DEF Deleting
  <2> QED
    BY <2>1, <2>2, <2>3, <2>4, <2>5 DEF Deletions
<1> HIDE DEF d2, e
<1>5. EachOnce(s)
  BY DEF Deleting
<1>6. ItemsOf(d2.callers) = C \cup {x} /\ EachOnce(d2.callers)
  BY <1>1, <1>3, <1>4, <1>5, CallerPushed
<1>7. Gone(G, d2) = F
  BY <1>4 DEF Gone
<1>8. /\ Len(s) \in Nat /\ Len(d2.callers) = Len(s) + 1
      /\ \A n \in 1..(Len(s) + 1) : d2.callers[n] = IF n = Len(s) + 1 THEN e ELSE s[n]
  BY <1>1, <1>3, <1>4, Pushed
<1>9. \A n \in 1..Len(d2.callers) : d2.callers[n].next = Nexts(h)[d2.callers[n].item]
  <2> SUFFICES ASSUME NEW n \in 1..(Len(s) + 1)
               PROVE  d2.callers[n].next = Nexts(h)[d2.callers[n].item]
    BY <1>8
  <2>1. n = Len(s) + 1 \/ n \in 1..Len(s)
    BY <1>8
  <2> QED
    BY <1>3, <1>8, <2>1 DEF Deleting
<1>10. Walk(Owned(h), Nexts(h), G, i, F, C \cup {x}, Owned(h)[x])
  <2>1. Walk(Owned(h), Nexts(h), G, i, F, C, x)
    BY DEF Deleting
  <2> QED
    BY <2>1, WalkDown
<1>11. Deleting(h, G, i, d2)
  <2>1. /\ d2.h.allocs = h.allocs /\ Counted(d2.h)
        /\ \A j \in Items : d2.h.at[j] = IF j \in Gone(G, d2) THEN Freed ELSE h.at[j]
    BY <1>4, <1>7 DEF Deleting
  <2>2. Walk(Owned(h), Nexts(h), G, i, Gone(G, d2), ItemsOf(d2.callers), d2.item)
    BY <1>4, <1>6, <1>7, <1>10
  <2> QED
    BY <1>4, <1>6, <1>9, <2>1, <2>2 DEF Deleting
<1>12. Left(G, d2) = Left(G, d) - 1
  <2> DEFINE R == Items \ Met(G, d)
             R2 == Items \ Met(G, d2)
  <2>1. R2 = R \ {x} /\ x \in R
    BY <1>1, <1>6, <1>7 DEF Met
  <2>2. IsFiniteSet(R)
    BY FS_Subset
  <2> HIDE DEF R, R2
  <2>3. Cardinality(R2) = Cardinality(R) - 1 /\ Cardinality(R) \in Nat
    BY <2>1, <2>2, FS_RemoveElement, FS_CardinalityType
  <2>4. Left(G, d2) = 2 * Cardinality(R2) + (Len(s) + 1) /\ Left(G, d) = 2 * Cardinality(R) + Len(s)
    BY <1>8 DEF Left, R, R2
  <2> QED
    BY <1>8, <2>3, <2>4
<1> QED
  BY <1>11, <1>12 DEF d2

LEMMA DeleteGoesOn ==
    ASSUME IsFiniteSet(Items), NEW h \in Heaps(Kinds, AllNames), NEW G, NEW i,
           Tied(Owned(h), Nexts(h), G, i), \A j \in G : h.at[j].type # "Freed",
           NEW d, Deleting(h, G, i, d), d.item = NULL, d.callers # <<>>
    PROVE  /\ Deleting(h, G, i, DeleteStep(d))
           /\ Left(G, DeleteStep(d)) = Left(G, d) - 1
<1> DEFINE s    == d.callers
           last == LastOf(s)
           x    == last.item
           d2   == DeleteStep(d)
           F    == Gone(G, d)
           C    == ItemsOf(s)
<1>1. /\ s \in Seq(Caller) /\ s # <<>> /\ EachOnce(s)
      /\ d.h \in Heaps(Kinds, AllNames) /\ Counted(d.h)
  BY DEF Deleting, Deletions
<1>2. Walk(Owned(h), Nexts(h), G, i, F, C, NULL)
  BY DEF Deleting
<1>3. /\ ItemsOf(Front(s)) = C \ {x} /\ x \in C /\ EachOnce(Front(s))
  BY <1>1, CallerPopped
<1>4. /\ Front(s) \in Seq(Caller) /\ Len(Front(s)) = Len(s) - 1
      /\ Len(s) \in Nat /\ Len(s) >= 1 /\ last = s[Len(s)] /\ last \in Caller
      /\ \A n \in 1..(Len(s) - 1) : Front(s)[n] = s[n]
  BY <1>1, Popped
<1>5. x \in G /\ x \in Items /\ x \notin F /\ G \subseteq Items
  BY <1>2, <1>3 DEF Walk, Tied
<1>6. d.h.at[x].type # "Freed"
  BY <1>5 DEF Gone
<1>7. last.next = Nexts(h)[x] /\ last.next \in Pointers
  <2>1. Len(s) \in 1..Len(s)
    BY <1>4
  <2>2. last.next = Nexts(h)[x]
    BY <1>4, <2>1 DEF Deleting
  <2> QED
    BY <1>4, <2>2 DEF Caller
<1>8. d2 = [h |-> FreedAt(d.h, x), item |-> last.next, callers |-> Front(s)]
  BY DEF DeleteStep, FreedAt
<1> HIDE DEF d2, last
<1>9. /\ FreedAt(d.h, x) \in Heaps(Kinds, AllNames)
      /\ FreedAt(d.h, x).allocs = d.h.allocs
      /\ FreedAt(d.h, x).at = [d.h.at EXCEPT ![x] = Freed]
      /\ Counted(FreedAt(d.h, x))
  BY <1>1, <1>5, <1>6, FreedAtFacts
<1>10. d2 \in Deletions /\ d2.h = FreedAt(d.h, x) /\ d2.item = Nexts(h)[x] /\ d2.callers = Front(s)
  BY <1>4, <1>7, <1>8, <1>9 DEF Deletions
<1>11. d2.h.at[x] = Freed /\ \A j \in Items : j # x => d2.h.at[j] = d.h.at[j]
  BY <1>1, <1>5, <1>9, <1>10 DEF Heaps
<1>12. Gone(G, d2) = F \cup {x}
  <2>1. Freed.type = "Freed"
    BY DEF Freed, Struct
  <2> QED
    BY <1>5, <1>11, <2>1 DEF Gone
<1>13. Walk(Owned(h), Nexts(h), G, i, F \cup {x}, C \ {x}, Nexts(h)[x])
  BY <1>2, <1>3, WalkOn
<1>14. \A n \in 1..Len(d2.callers) : d2.callers[n].next = Nexts(h)[d2.callers[n].item]
  <2> SUFFICES ASSUME NEW n \in 1..(Len(s) - 1)
               PROVE  d2.callers[n].next = Nexts(h)[d2.callers[n].item]
    BY <1>4, <1>10
  <2>1. n \in 1..Len(s) /\ d2.callers[n] = s[n]
    BY <1>4, <1>10
  <2> QED
    BY <2>1 DEF Deleting
<1>15. \A j \in Items : d2.h.at[j] = IF j \in Gone(G, d2) THEN Freed ELSE h.at[j]
  BY <1>11, <1>12 DEF Deleting
<1>16. Deleting(h, G, i, d2)
  <2>1. Walk(Owned(h), Nexts(h), G, i, Gone(G, d2), ItemsOf(d2.callers), d2.item)
    BY <1>3, <1>10, <1>12, <1>13
  <2>2. d2.h.allocs = h.allocs /\ Counted(d2.h) /\ EachOnce(d2.callers)
    BY <1>3, <1>9, <1>10 DEF Deleting
  <2> QED
    BY <1>10, <1>14, <1>15, <2>1, <2>2 DEF Deleting
<1>17. Left(G, d2) = Left(G, d) - 1
  <2>1. Met(G, d2) = Met(G, d)
    BY <1>3, <1>10, <1>12 DEF Met
  <2>2. IsFiniteSet(Items \ Met(G, d))
    BY FS_Subset
  <2>3. Cardinality(Items \ Met(G, d)) \in Nat
    BY <2>2, FS_CardinalityType
  <2> QED
    BY <1>4, <1>10, <2>1, <2>3 DEF Left
<1> QED
  BY <1>16, <1>17 DEF d2

(* Where there is no call left and no item to look at, all of G is given back. *)
LEMMA DeleteEnds ==
    ASSUME NEW h, NEW G, NEW i, Tied(Owned(h), Nexts(h), G, i),
           NEW d, Deleting(h, G, i, d), d.item = NULL, d.callers = <<>>
    PROVE  \A j \in Items : d.h.at[j] = IF j \in G THEN Freed ELSE h.at[j]
<1>1. ItemsOf(d.callers) = {}
  BY DEF ItemsOf
<1>2. Walk(Owned(h), Nexts(h), G, i, Gone(G, d), {}, NULL)
  BY <1>1 DEF Deleting
<1>3. Gone(G, d) = G
  BY <1>2, WalkEnds
<1> QED
  BY <1>3 DEF Deleting

-----------------------------------------------------------------------------
Iterates(g, S, a, step) ==
    g \in [Nat -> S] /\ g[0] = a /\ \A n \in Nat : g[n + 1] = step[g[n]]

LEMMA SomeIterates ==
    ASSUME NEW S, NEW a \in S, NEW step \in [S -> S]
    PROVE  \E g : Iterates(g, S, a, step)
BY Iterated DEF Iterates

(* What starts in S at a, follows step and counts down from left ends in Done. *)
LEMMA Runs ==
    ASSUME NEW S, NEW a \in S, NEW step \in [S -> S], NEW r, r[0] = a,
           \A n \in Nat : r[n] \in S => r[n + 1] = step[r[n]],
           NEW left \in [S -> Nat], NEW Done \in SUBSET S,
           \A s \in Done : step[s] = s,
           \A s \in S \ Done : left[step[s]] < left[s]
    PROVE  \A n \in Nat : r[n] \in S /\ (left[a] <= n => r[n] \in Done)
<1> DEFINE T == {n \in Nat : r[n] \in S /\ (r[n] \in Done \/ left[r[n]] + n <= left[a])}
<1>1. left[a] \in Nat
  OBVIOUS
<1>2. 0 \in T
  BY <1>1
<1>3. ASSUME NEW n \in T PROVE n + 1 \in T
  <2>1. n \in Nat /\ r[n] \in S /\ r[n + 1] = step[r[n]] /\ r[n + 1] \in S
    OBVIOUS
  <2>2. CASE r[n] \in Done
    <3>1. r[n + 1] \in Done
      BY <2>1, <2>2
    <3> QED
      BY <2>1, <3>1
  <2>3. CASE r[n] \notin Done
    <3>1. left[r[n]] + n <= left[a] /\ left[r[n + 1]] < left[r[n]]
          /\ left[r[n]] \in Nat /\ left[r[n + 1]] \in Nat
      BY <2>1, <2>3
    <3>2. left[r[n + 1]] + (n + 1) <= left[a]
      BY <1>1, <2>1, <3>1
    <3> QED
      BY <2>1, <3>2
  <2> QED
    BY <2>2, <2>3
<1> HIDE DEF T
<1>4. T \in SUBSET Nat
  BY DEF T
<1>5. T = Nat
  BY <1>2, <1>3, <1>4, SetInduction
<1> SUFFICES ASSUME NEW n \in Nat PROVE r[n] \in S /\ (left[a] <= n => r[n] \in Done)
  OBVIOUS
<1>6. r[n] \in S /\ (r[n] \in Done \/ left[r[n]] + n <= left[a])
  BY <1>5 DEF T
<1>7. ASSUME left[a] <= n, r[n] \notin Done PROVE FALSE
  <2>1. left[r[n]] + n <= left[a] /\ left[step[r[n]]] < left[r[n]]
        /\ left[r[n]] \in Nat /\ left[step[r[n]]] \in Nat
    BY <1>6, <1>7
  <2> QED
    BY <1>1, <1>7, <2>1
<1> QED
  BY <1>6, <1>7

-----------------------------------------------------------------------------
Deleted(h, G, h2) ==
    /\ h2 \in Heaps(Kinds, AllNames) /\ h2.allocs = h.allocs
    /\ Counted(h2)
    /\ \A j \in Items : h2.at[j] = IF j \in G THEN Freed ELSE h.at[j]

(* cJSON_Delete gives back the items of a tree, each one once, and ends.      *)
LEMMA DeleteRuns ==
    ASSUME IsFiniteSet(Items), NEW h \in Heaps(Kinds, AllNames), Counted(h),
           NEW G, NEW i, Tied(Owned(h), Nexts(h), G, i),
           \A j \in G : h.at[j].type # "Freed"
    PROVE  Deleted(h, G, cJSON_Delete(h, i))
<1> DEFINE Ended(d) == d.item = NULL /\ d.callers = <<>>
           d0    == [h |-> h, item |-> i, callers |-> <<>>]
           S     == {d \in Deletions : Deleting(h, G, i, d)}
           step  == [d \in S |-> IF Ended(d) THEN d ELSE DeleteStep(d)]
           left  == [d \in S |-> Left(G, d)]
           Done  == {d \in S : Ended(d)}
           D(f, n) == IF n = 0 THEN d0
                      ELSE LET d == f[n - 1] IN IF Ended(d) THEN d ELSE DeleteStep(d)
           Follows(f) == f = [n \in Nat |-> D(f, n)]
           run   == CHOOSE f : Follows(f)
<1>1. NULL \notin Items /\ i \in G /\ G \subseteq Items /\ DOMAIN h.at = Items
  BY DEF Tied, Heaps
<1>2. d0 \in S /\ Left(G, d0) = 2 * Cardinality(Items)
  <2>1. d0 \in Deletions /\ d0.h = h /\ d0.item = i /\ d0.callers = <<>>
    BY <1>1 DEF Deletions, Pointers
  <2>2. /\ Gone(G, d0) = {} /\ ItemsOf(d0.callers) = {} /\ Len(d0.callers) = 0
        /\ EachOnce(d0.callers)
    BY <2>1 DEF Gone, ItemsOf, EachOnce
  <2>3. Walk(Owned(h), Nexts(h), G, i, {}, {}, i)
    BY <1>1 DEF Walk
  <2> HIDE DEF d0
  <2>4. Deleting(h, G, i, d0)
    <3>1. \A j \in Items : d0.h.at[j] = IF j \in Gone(G, d0) THEN Freed ELSE h.at[j]
      BY <2>1, <2>2
    <3>2. \A n \in 1..Len(d0.callers) : d0.callers[n].next = Nexts(h)[d0.callers[n].item]
      BY <2>2
    <3>3. Walk(Owned(h), Nexts(h), G, i, Gone(G, d0), ItemsOf(d0.callers), d0.item)
      BY <2>1, <2>2, <2>3
    <3>4. d0.h.allocs = h.allocs /\ Counted(d0.h)
      BY <2>1
    <3> QED
      BY <2>1, <2>2, <3>1, <3>2, <3>3, <3>4 DEF Deleting
  <2>5. Left(G, d0) = 2 * Cardinality(Items) + 0
    <3>1. Items \ Met(G, d0) = Items
      BY <2>2 DEF Met
    <3> QED
      BY <2>2, <3>1 DEF Left
  <2>6. Cardinality(Items) \in Nat
    BY FS_CardinalityType
  <2> QED
    BY <2>1, <2>4, <2>5, <2>6
<1> HIDE DEF d0
<1>3. ASSUME NEW d \in S
      PROVE  /\ Left(G, d) \in Nat
             /\ ~Ended(d) => /\ DeleteStep(d) \in S
                             /\ Left(G, DeleteStep(d)) = Left(G, d) - 1
  <2>1. Deleting(h, G, i, d) /\ d.callers \in Seq(Caller)
    BY DEF Deletions
  <2>2. Left(G, d) \in Nat
    <3>1. IsFiniteSet(Items \ Met(G, d))
      BY FS_Subset
    <3>2. Cardinality(Items \ Met(G, d)) \in Nat /\ Len(d.callers) \in Nat
      BY <2>1, <3>1, FS_CardinalityType, LenProperties
    <3> QED
      BY <3>2 DEF Left
  <2>3. ASSUME ~Ended(d)
        PROVE  /\ Deleting(h, G, i, DeleteStep(d))
               /\ Left(G, DeleteStep(d)) = Left(G, d) - 1
    <3>1. CASE d.item # NULL
      BY <2>1, <3>1, DeleteGoesDown
    <3>2. CASE d.item = NULL /\ d.callers # <<>>
      BY <2>1, <3>2, DeleteGoesOn
    <3> QED
      BY <2>3, <3>1, <3>2
  <2> QED
    BY <2>2, <2>3 DEF Deleting
<1>4. step \in [S -> S] /\ left \in [S -> Nat] /\ Done \in SUBSET S
  <2> HIDE DEF S, Ended
  <2> QED
    BY <1>3
<1>5. /\ \A d \in Done : step[d] = d
      /\ \A d \in S \ Done : left[step[d]] < left[d]
  <2> HIDE DEF S, Ended
  <2>1. ASSUME NEW d \in S \ Done PROVE left[step[d]] < left[d]
    <3>1. step[d] = DeleteStep(d) /\ DeleteStep(d) \in S
          /\ Left(G, DeleteStep(d)) = Left(G, d) - 1 /\ Left(G, d) \in Nat
      BY <1>3
    <3>2. left[step[d]] = Left(G, d) - 1 /\ left[d] = Left(G, d)
      BY <3>1
    <3> QED
      BY <3>1, <3>2
  <2> QED
    BY <2>1
<1>6. Follows(run)
  <2>5. PICK g : Iterates(g, S, d0, step)
    <3>1. d0 \in S /\ step \in [S -> S]
      BY <1>2, <1>4
    <3> HIDE DEF S, step, left, Done, D, Follows, run, Ended
    <3> QED
      BY <3>1, SomeIterates
  <2>1. g \in [Nat -> S] /\ g[0] = d0 /\ \A n \in Nat : g[n + 1] = step[g[n]]
    <3> HIDE DEF S, step, left, Done, D, Follows, run, Ended
    <3> QED
      BY <2>5 DEF Iterates
  <2>2. ASSUME NEW n \in Nat PROVE g[n] = D(g, n)
    <3>1. CASE n = 0
      BY <2>1, <3>1
    <3>2. CASE n # 0
      <4>1. n - 1 \in Nat /\ (n - 1) + 1 = n
        BY <3>2
      <4>2. g[(n - 1) + 1] = step[g[n - 1]] /\ g[n - 1] \in S
        BY <2>1, <4>1
      <4> HIDE DEF S, Ended
      <4> QED
        BY <3>2, <4>1, <4>2
    <3> QED
      BY <3>1, <3>2
  <2>3. g = [n \in Nat |-> g[n]]
    <3> HIDE DEF S, step, left, Done, D, Follows, run, Ended
    <3> QED
      BY <2>1
  <2>4. Follows(g)
    <3> HIDE DEF D
    <3> QED
      BY <2>2, <2>3
  <2> HIDE DEF Follows
  <2> QED
    BY <2>4
<1> HIDE DEF run
<1>7. run[0] = d0 /\ \A n \in Nat : run[n] \in S => run[n + 1] = step[run[n]]
  <2>1. \A n \in Nat : run[n] = D(run, n)
    BY <1>6
  <2>2. run[0] = d0
    BY <2>1
  <2>3. ASSUME NEW n \in Nat, run[n] \in S PROVE run[n + 1] = step[run[n]]
    <3>1. n + 1 \in Nat /\ n + 1 # 0 /\ (n + 1) - 1 = n
      OBVIOUS
    <3>2. run[n + 1] = D(run, n + 1)
      BY <2>1, <3>1
    <3> HIDE DEF S, Ended
    <3> QED
      BY <2>3, <3>1, <3>2
  <2> QED
    BY <2>2, <2>3
<1> DEFINE N == 2 * Cardinality(Items)
<1>8. N \in Nat /\ left[d0] = N
  <2>1. Cardinality(Items) \in Nat
    BY FS_CardinalityType
  <2> HIDE DEF S
  <2> QED
    BY <1>2, <2>1
<1>9. run[N] \in Done
  <2> HIDE DEF S, step, left, Done, N
  <2>1. left[d0] <= N
    BY <1>8
  <2> QED
    BY <1>2, <1>4, <1>5, <1>7, <1>8, <2>1, Runs
<1>10. cJSON_Delete(h, i) = run[N].h
  BY <1>1 DEF cJSON_Delete, run, d0
<1> DEFINE d == run[N]
<1>11. Deleting(h, G, i, d) /\ d.item = NULL /\ d.callers = <<>> /\ d \in Deletions
  <2> HIDE DEF N
  <2> QED
    BY <1>9
<1> HIDE DEF d
<1>12. \A j \in Items : d.h.at[j] = IF j \in G THEN Freed ELSE h.at[j]
  BY <1>11, DeleteEnds
<1>13. d.h \in Heaps(Kinds, AllNames) /\ d.h.allocs = h.allocs /\ Counted(d.h)
  BY <1>11 DEF Deletions, Deleting
<1> QED
  BY <1>10, <1>12, <1>13 DEF Deleted, d

-----------------------------------------------------------------------------
(* What is under an item in use is in use.                                  *)
LEMMA TreeLive ==
    ASSUME NEW l, NEW k, NEW r, IsForest(l, k, r), NEW i \in l
    PROVE  Tree(k, i) \subseteq l /\ Tree(k, i) \subseteq Items /\ i \in Items
<1>1. l \in SUBSET Items /\ i \in Items
  BY DEF IsForest, Typed
<1>2. Closed(k, l)
  BY <1>1 DEF IsForest, Inside, Closed
<1> QED
  BY <1>1, <1>2, TreeLeast, TreeHasRoot

(* An item that is no root is in a list of an item in use.                  *)
LEMMA RootOrChild ==
    ASSUME NEW l, NEW k, NEW r, IsForest(l, k, r), NEW j \in l
    PROVE  j \in r \/ \E q \in l : j \in Elements(k[q])
<1>1. k \in [Items -> Seq(Items)] /\ r \subseteq l /\ l \subseteq Items
  BY DEF IsForest, Typed
<1>2. PICK i \in r : j \in Tree(k, i)
  BY DEF IsForest, Reached
<1>3. i \in Items /\ i \in l
  BY <1>1
<1>4. Tree(k, i) \subseteq l
  BY <1>3, TreeLive
<1>5. j # i => \E q \in Tree(k, i) : j \in Elements(k[q])
  BY <1>1, <1>2, <1>3, TreeParent
<1> QED
  BY <1>2, <1>4, <1>5

(* Two lists with an item in common are one. *)
LEMMA OneParent ==
    ASSUME NEW k, Apart(k), NEW a \in Items, NEW b \in Items,
           NEW j, j \in Elements(k[a]), j \in Elements(k[b])
    PROVE  a = b
BY DEF Apart, Elements

(* Where l and what is under it stays, no item beside it has one of l in its  *)
(* list.                                                                    *)
LEMMA NewStaysNew ==
    ASSUME NEW l, NEW k, NEW r, IsForest(l, k, r),
           NEW l2, NEW k2, NEW r2, IsForest(l2, k2, r2), r \subseteq r2,
           \A j \in l : k2[j] = k[j],
           NEW x \in Items \ l
    PROVE  Elements(k2[x]) \cap l = {}
<1> SUFFICES ASSUME NEW e \in Elements(k2[x]), e \in l PROVE FALSE
  OBVIOUS
<1>1. l \subseteq Items /\ Apart(k2)
  BY DEF IsForest, Typed
<1>2. e \notin r2
  BY DEF IsForest, NoChild
<1>3. PICK q \in l : e \in Elements(k[q])
  BY <1>2, RootOrChild
<1>4. e \in Elements(k2[q]) /\ q \in Items
  BY <1>1, <1>3
<1>5. q = x
  BY <1>1, <1>4, OneParent
<1> QED
  BY <1>5

(* A forest with one more root has a new tree.                              *)
LEMMA NewTreeMade ==
    ASSUME NEW l, NEW k, NEW r, IsForest(l, k, r),
           NEW l2, NEW k2, NEW i, IsForest(l2, k2, r \cup {i}), l \subseteq l2,
           i \notin l, \A j \in l : k2[j] = k[j]
    PROVE  /\ IsNewTree(l2 \ l, k2, i)
           /\ \A j \in Items \ (l2 \ l) : k2[j] = k[j]
<1> DEFINE N == l2 \ l
<1>1. /\ l2 \subseteq Items /\ i \in l2 /\ r \subseteq l /\ Apart(k2)
      /\ k2 \in [Items -> Seq(Items)] /\ k \in [Items -> Seq(Items)] /\ l \in SUBSET Items
  BY DEF IsForest, Typed
<1>2. \A x \in Items \ l : Elements(k2[x]) \cap l = {}
  <2> DEFINE r2 == r \cup {i}
  <2>1. r \subseteq r2 /\ IsForest(l2, k2, r2)
    OBVIOUS
  <2> HIDE DEF r2
  <2> QED
    BY <2>1, NewStaysNew
<1>3. \A a \in Items : Elements(k2[a]) \subseteq l2 /\ i \notin Elements(k2[a])
  BY DEF IsForest, Inside, NoChild
<1>4. \A j \in N : Elements(k2[j]) \subseteq N \ {i}
  BY <1>1, <1>2, <1>3
<1>5. N \subseteq Tree(k2, i)
  <2> SUFFICES ASSUME NEW j \in N PROVE j \in Tree(k2, i)
    OBVIOUS
  <2>1. PICK q \in r \cup {i} : j \in Tree(k2, q)
    BY DEF IsForest, Reached
  <2>2. ASSUME q \in r PROVE FALSE
    <3>1. q \in l /\ q \in Items
      BY <1>1, <2>2
    <3>2. Closed(k, l)
      BY <1>1 DEF IsForest, Inside, Closed
    <3>3. Closed(k2, l)
      BY <3>2 DEF Closed
    <3>4. Tree(k2, q) \subseteq l
      BY <1>1, <3>1, <3>3, TreeLeast
    <3> QED
      BY <2>1, <3>4
  <2> QED
    BY <2>1, <2>2
<1>6. \A a, b \in N : \A m \in 1..Len(k2[a]), n \in 1..Len(k2[b]) :
         k2[a][m] = k2[b][n] => a = b /\ m = n
  BY <1>1 DEF Apart
<1>7. ASSUME NEW j \in Items, j \notin N PROVE k2[j] = k[j]
  <2>1. CASE j \in l
    BY <2>1
  <2>2. CASE j \notin l
    <3>1. j \notin l2
      BY <1>7, <2>2
    <3>2. k2[j] = <<>> /\ k[j] = <<>>
      BY <2>2, <3>1 DEF IsForest, Inside
    <3> QED
      BY <3>2
  <2> QED
    BY <2>1, <2>2
<1>8. i \in N
  BY <1>1
<1>9. IsNewTree(N, k2, i)
  BY <1>4, <1>5, <1>6, <1>8 DEF IsNewTree
<1> QED
  BY <1>7, <1>9

(* No item is under what is in its list.                                    *)
LEMMA ParentOutside ==
    ASSUME NEW l, NEW k, NEW r, IsForest(l, k, r),
           NEW p \in l, NEW x \in Elements(k[p])
    PROVE  p \notin Tree(k, x)
<1> SUFFICES ASSUME p \in Tree(k, x) PROVE FALSE
  OBVIOUS
<1>1. /\ k \in [Items -> Seq(Items)] /\ r \subseteq l /\ l \subseteq Items /\ Apart(k)
      /\ x \in l
  BY DEF IsForest, Typed, Inside
<1>2. PICK q \in r : p \in Tree(k, q)
  BY DEF IsForest, Reached
<1> DEFINE S == Tree(k, q) \ Tree(k, x)
<1>3. q \in Items /\ x \in Items /\ Tree(k, q) \subseteq Items
  BY <1>1, TreeHasRoot
<1>4. \A y \in Tree(k, x) : y # x => \E z \in Tree(k, x) : y \in Elements(k[z])
  BY <1>1, <1>3, TreeParent
<1>5. \A z \in Items : q \notin Elements(k[z])
  BY <1>2 DEF IsForest, NoChild
<1>6. Tree(k, x) \subseteq Items
  BY <1>3, TreeHasRoot
<1>7. q \notin Tree(k, x)
  <2>1. q # x
    BY <1>1, <1>5
  <2> QED
    BY <1>4, <1>5, <1>6, <2>1
<1>8. q \in S
  BY <1>3, <1>7, TreeHasRoot
<1>9. ASSUME NEW y \in S, NEW z \in Elements(k[y]) PROVE z \in S
  <2>1. z \in Tree(k, q) /\ y \in Items
    BY <1>1, <1>3, TreeClosed
  <2>2. ASSUME z = x PROVE FALSE
    <3>1. y = p
      BY <1>1, <2>1, <2>2, OneParent
    <3> QED
      BY <3>1
  <2>3. ASSUME z \in Tree(k, x), z # x PROVE FALSE
    <3>1. PICK w \in Tree(k, x) : z \in Elements(k[w])
      BY <1>4, <2>3
    <3>2. w = y
      BY <1>1, <1>6, <2>1, <3>1, OneParent
    <3> QED
      BY <3>1, <3>2
  <2> QED
    BY <2>1, <2>2, <2>3
<1>10. Closed(k, S) /\ S \in SUBSET Items
  BY <1>3, <1>9 DEF Closed
<1>11. Tree(k, q) \subseteq S
  <2> HIDE DEF S
  <2> QED
    BY <1>3, <1>8, <1>10, TreeLeast
<1> QED
  BY <1>2, <1>11

-----------------------------------------------------------------------------
LEMMA SoundFacts ==
    ASSUME NEW h, NEW k, NEW r, Sound(h, k, r)
    PROVE  /\ h \in Heaps(Kinds, AllNames) /\ Shows(h, k) /\ Counted(h)
           /\ IsForest(Live(h), k, r)
           /\ NULL \notin Items /\ k \in [Items -> Seq(Items)] /\ Apart(k)
           /\ r \subseteq Live(h) /\ Live(h) \subseteq Items
           /\ \A i \in r : NoChild(k, i)
           /\ \A a \in Items : /\ a \notin Live(h) => k[a] = <<>> /\ h.at[a] = Freed
                               /\ Elements(k[a]) \subseteq Live(h)
BY DEF Sound, IsForest, Typed, Inside, Shows, Linking

(* Freeing the items of a tree leaves the pointers of the others.           *)
LEMMA DeletedShows ==
    ASSUME NEW h, NEW k, NEW r, Sound(h, k, r), NEW i \in r,
           NEW h2, Deleted(h, Tree(k, i), h2)
    PROVE  Shows(h2, Pruned(k, Tree(k, i)))
<1> DEFINE G  == Tree(k, i)
           k2 == Pruned(k, G)
           nx == Nexts(h2)
           pv == Prevs(h2)
           ch == Firsts(h2)
           rf == Refs(h2)
<1>1. /\ NULL \notin Items /\ k \in [Items -> Seq(Items)] /\ Apart(k)
      /\ NoChild(k, i) /\ i \in Items /\ h \in Heaps(Kinds, AllNames) /\ Shows(h, k)
  BY SoundFacts
<1>2. G \subseteq Items /\ \A y \in G : Elements(k[y]) \subseteq G
  BY <1>1, TreeHasRoot, TreeClosed
<1>3. \A y \in G : y # i => \E z \in G : y \in Elements(k[z])
  BY <1>1, TreeParent
<1>4. /\ h2 \in Heaps(Kinds, AllNames)
      /\ \A j \in Items : h2.at[j] = IF j \in G THEN Freed ELSE h.at[j]
  BY DEF Deleted
<1> HIDE DEF G
<1>5. /\ nx \in [Items -> Pointers] /\ pv \in [Items -> Pointers] /\ ch \in [Items -> Pointers]
      /\ \A j \in Items : nx[j] = h2.at[j].next /\ pv[j] = h2.at[j].prev
                          /\ ch[j] = h2.at[j].child
      /\ \A j \in Items : Nexts(h)[j] = h.at[j].next /\ Prevs(h)[j] = h.at[j].prev
                          /\ Firsts(h)[j] = h.at[j].child
  BY <1>1, <1>4, PointerViews
<1>6. /\ Freed.next = NULL /\ Freed.prev = NULL /\ Freed.child = NULL /\ ~Freed.isRef
  BY DEF Freed, Struct
<1>7. \A j \in G : nx[j] = NULL /\ pv[j] = NULL /\ ch[j] = NULL /\ j \notin rf
  BY <1>2, <1>4, <1>5, <1>6 DEF Refs
<1>8. \A j \in Items \ G : /\ nx[j] = Nexts(h)[j] /\ pv[j] = Prevs(h)[j]
                           /\ ch[j] = Firsts(h)[j] /\ (j \in rf <=> j \in Refs(h))
  BY <1>4, <1>5 DEF Refs
<1> HIDE DEF nx, pv, ch, rf
<1>9. /\ k2 \in [Items -> Seq(Items)]
      /\ \A a \in Items : k2[a] = IF a \in G THEN <<>> ELSE k[a]
  BY <1>1 DEF Pruned
<1> HIDE DEF k2
<1>10. \A a \in Items \ G : Elements(k[a]) \cap G = {}
  <2> SUFFICES ASSUME NEW a \in Items \ G, NEW x \in G, x \in Elements(k[a]) PROVE FALSE
    OBVIOUS
  <2>1. x # i
    BY <1>1 DEF NoChild
  <2>2. PICK z \in G : x \in Elements(k[z])
    BY <1>3, <2>1
  <2>3. z = a
    BY <1>1, <1>2, <2>2, OneParent
  <2> QED
    BY <2>3
<1>11. Apart(k2)
  <2> SUFFICES ASSUME NEW a \in Items, NEW b \in Items,
                      NEW m \in 1..Len(k2[a]), NEW n \in 1..Len(k2[b]),
                      k2[a][m] = k2[b][n]
               PROVE  a = b /\ m = n
    BY DEF Apart
  <2>1. a \notin G /\ b \notin G
    BY <1>9
  <2> QED
    BY <1>1, <1>9, <2>1 DEF Apart
<1>12. ASSUME NEW p \in Items
       PROVE  /\ IF p \in rf THEN k2[p] = <<>> ELSE ch[p] = After(k2[p], 0)
              /\ \A n \in 1..Len(k2[p]) :
                    nx[k2[p][n]] = After(k2[p], n) /\ pv[k2[p][n]] = Before(k2[p], n)
  <2>1. CASE p \in G
    <3>1. k2[p] = <<>> /\ p \notin rf /\ ch[p] = NULL /\ Len(k2[p]) = 0
      BY <1>7, <1>9, <2>1
    <3> QED
      BY <3>1 DEF After
  <2>2. CASE p \notin G
    <3>1. k2[p] = k[p] /\ ch[p] = Firsts(h)[p] /\ (p \in rf <=> p \in Refs(h))
      BY <1>8, <1>9, <2>2
    <3>2. /\ p \notin Refs(h) => Firsts(h)[p] = After(k[p], 0)
          /\ p \in Refs(h) => k[p] = <<>>
          /\ \A n \in 1..Len(k[p]) : /\ k[p][n] \in Items
                                     /\ Nexts(h)[k[p][n]] = After(k[p], n)
                                     /\ Prevs(h)[k[p][n]] = Before(k[p], n)
      BY <1>1, ShownFacts
    <3>3. \A n \in 1..Len(k[p]) : k[p][n] \notin G
      BY <1>10, <2>2 DEF Elements
    <3> QED
      BY <1>8, <3>1, <3>2, <3>3
  <2> QED
    BY <2>1, <2>2
<1>13. ASSUME NEW j \in Items, NoChild(k2, j) PROVE nx[j] = NULL /\ pv[j] = NULL
  <2>1. CASE j \in G
    BY <1>7, <2>1
  <2>2. CASE j \notin G
    <3>1. NoChild(k, j)
      <4> SUFFICES ASSUME NEW a \in Items, j \in Elements(k[a]) PROVE FALSE
        BY DEF NoChild
      <4>1. a \notin G
        BY <1>2, <2>2
      <4>2. k2[a] = k[a]
        BY <1>9, <4>1
      <4> QED
        BY <1>13, <4>2 DEF NoChild
    <3>2. Nexts(h)[j] = NULL /\ Prevs(h)[j] = NULL
      BY <1>1, <3>1, ShownFacts
    <3> QED
      BY <1>8, <2>2, <3>2
  <2> QED
    BY <2>1, <2>2
<1>14. Linking(nx, pv, ch, rf, k2)
  BY <1>1, <1>5, <1>9, <1>11, <1>12, <1>13 DEF Linking
<1> QED
  BY <1>14 DEF Shows, nx, pv, ch, rf, k2, G

(* cJSON_Delete gives back an item with all that is under it, each block once, *)
(* and touches nothing else, for trees of any size.                         *)
THEOREM DeleteImplemented ==
    ASSUME IsFiniteSet(Items), NEW h, NEW k, NEW r, Sound(h, k, r), NEW i \in r
    PROVE  LET h2 == cJSON_Delete(h, i)
               G  == Tree(k, i)
           IN  /\ Sound(h2, Pruned(k, G), r \ {i})
               /\ Live(h2) = Live(h) \ G
               /\ h2.allocs = h.allocs
               /\ \A j \in Items : h2.at[j] = IF j \in G THEN Freed ELSE h.at[j]
<1> DEFINE h2 == cJSON_Delete(h, i)
           G  == Tree(k, i)
<1>1. /\ h \in Heaps(Kinds, AllNames) /\ Shows(h, k) /\ Counted(h)
      /\ IsForest(Live(h), k, r) /\ NoChild(k, i) /\ i \in Items /\ i \in Live(h)
  BY SoundFacts
<1>2. G \subseteq Live(h)
  BY <1>1, TreeLive
<1>3. \A j \in G : h.at[j].type # "Freed"
  BY <1>2 DEF Live
<1>4. Tied(Owned(h), Nexts(h), G, i)
  BY <1>1, TreeTied
<1>5. Deleted(h, G, h2)
  BY <1>1, <1>3, <1>4, DeleteRuns
<1> HIDE DEF h2
<1>6. Shows(h2, Pruned(k, G))
  BY <1>5, DeletedShows
<1>7. /\ h2 \in Heaps(Kinds, AllNames) /\ h2.allocs = h.allocs /\ Counted(h2)
      /\ \A j \in Items : h2.at[j] = IF j \in G THEN Freed ELSE h.at[j]
  BY <1>5 DEF Deleted
<1>8. Live(h2) = Live(h) \ G
  <2>1. Freed.type = "Freed"
    BY DEF Freed, Struct
  <2> QED
    BY <1>2, <1>7, <2>1 DEF Live
<1>9. IsForest(Live(h2), Pruned(k, G), r \ {i})
  BY <1>1, <1>8, DeleteForest
<1>10. \A j \in Items \ Live(h2) : h2.at[j] = Freed
  BY <1>7, <1>8, SoundFacts
<1>11. Sound(h2, Pruned(k, G), r \ {i})
  BY <1>6, <1>7, <1>9, <1>10 DEF Sound
<1> QED
  BY <1>7, <1>8, <1>11 DEF h2

-----------------------------------------------------------------------------
LEMMA SameCell ==
    ASSUME NEW K, NEW N, NEW c \in Cells(K, N), NEW d \in Cells(K, N),
           c.type = d.type, c.isRef = d.isRef, c.text = d.text, c.name = d.name,
           c.constName = d.constName, c.next = d.next, c.prev = d.prev,
           c.child = d.child
    PROVE  c = d
BY DEF Cells

(* An item that is neither p nor in its list, before or after, is as it was.  *)
LEMMA OthersStay ==
    ASSUME NEW K, NEW N, NEW h \in Heaps(K, N), NEW h2 \in Heaps(K, N),
           NEW k, NEW k2, Shows(h, k), Shows(h2, k2),
           NEW p \in Items, Relinked(h, k, h2, k2, p),
           NEW j \in Items, j # p, j \notin Elements(k[p]), j \notin Elements(k2[p])
    PROVE  h2.at[j] = h.at[j]
<1>1. /\ Nexts(h)[j] = h.at[j].next /\ Prevs(h)[j] = h.at[j].prev
      /\ Firsts(h)[j] = h.at[j].child
      /\ Nexts(h2)[j] = h2.at[j].next /\ Prevs(h2)[j] = h2.at[j].prev
      /\ Firsts(h2)[j] = h2.at[j].child
  BY PointerViews
<1>2. \A q \in Items : q # p => k2[q] = k[q]
  BY DEF Relinked
<1>3. Nexts(h2)[j] = Nexts(h)[j] /\ Prevs(h2)[j] = Prevs(h)[j]
  <2>1. CASE NoChild(k, j)
    <3>1. NoChild(k2, j)
      BY <1>2, <2>1 DEF NoChild
    <3> QED
      BY <2>1, <3>1, ShownFacts
  <2>2. CASE ~NoChild(k, j)
    <3>1. PICK q \in Items : j \in Elements(k[q])
      BY <2>2 DEF NoChild
    <3>2. PICK n \in 1..Len(k[q]) : j = k[q][n]
      BY <3>1 DEF Elements
    <3>3. k2[q] = k[q]
      BY <1>2, <3>1
    <3>4. Nexts(h)[k[q][n]] = After(k[q], n) /\ Prevs(h)[k[q][n]] = Before(k[q], n)
      BY MemberShown
    <3>5. n \in 1..Len(k2[q])
      BY <3>3
    <3>6. Nexts(h2)[k2[q][n]] = After(k2[q], n) /\ Prevs(h2)[k2[q][n]] = Before(k2[q], n)
      BY <3>5, MemberShown
    <3> QED
      BY <3>2, <3>3, <3>4, <3>6
  <2> QED
    BY <2>1, <2>2
<1>4. Firsts(h2)[j] = Firsts(h)[j]
  BY DEF Relinked
<1>5. h.at[j] \in Cells(K, N) /\ h2.at[j] \in Cells(K, N)
  BY DEF Heaps
<1>6. /\ h2.at[j].type = h.at[j].type /\ h2.at[j].isRef = h.at[j].isRef
      /\ h2.at[j].text = h.at[j].text /\ h2.at[j].name = h.at[j].name
      /\ h2.at[j].constName = h.at[j].constName
  BY DEF Relinked, OnlyLinks
<1> QED
  BY <1>1, <1>3, <1>4, <1>5, <1>6, SameCell

(* Pointers that show another forest of the same items.                     *)
LEMMA SoundLinks ==
    ASSUME NEW h, NEW k, NEW r, Sound(h, k, r),
           NEW h2 \in Heaps(Kinds, AllNames), OnlyLinks(h2, h),
           NEW k2, Shows(h2, k2), NEW r2, IsForest(Live(h), k2, r2)
    PROVE  Sound(h2, k2, r2) /\ Live(h2) = Live(h) /\ Refs(h2) = Refs(h)
<1>1. h \in Heaps(Kinds, AllNames) /\ Counted(h)
  BY SoundFacts
<1>2. Live(h2) = Live(h) /\ Refs(h2) = Refs(h)
  BY SameRefs DEF Live, OnlyLinks
<1>3. Counted(h2)
  BY <1>1, LinksCounted
<1>4. ASSUME NEW j \in Items \ Live(h2) PROVE h2.at[j] = Freed
  <2>1. h.at[j] = Freed
    BY <1>2, SoundFacts
  <2>2. /\ Freed.type = "Freed" /\ Freed.isRef = FALSE /\ Freed.text = FALSE
        /\ Freed.name = NULL /\ Freed.constName = FALSE /\ Freed.next = NULL
        /\ Freed.prev = NULL /\ Freed.child = NULL
    BY DEF Freed, Struct
  <2>3. /\ h2.at[j].type = "Freed" /\ h2.at[j].isRef = FALSE /\ h2.at[j].text = FALSE
        /\ h2.at[j].name = NULL /\ h2.at[j].constName = FALSE
    BY <2>1, <2>2 DEF OnlyLinks
  <2>4. k2[j] = <<>> /\ NoChild(k2, j)
    <3>1. j \notin Live(h)
      BY <1>2
    <3> QED
      BY <3>1 DEF IsForest, Inside, NoChild
  <2>5. Nexts(h2)[j] = NULL /\ Prevs(h2)[j] = NULL
    BY <2>4, ShownFacts
  <2>6. j \notin Refs(h2)
    BY <2>3 DEF Refs
  <2>7. Firsts(h2)[j] = After(k2[j], 0)
    BY <2>6, ShownFacts
  <2>8. Firsts(h2)[j] = NULL
    BY <2>4, <2>7 DEF After
  <2>9. h2.at[j].next = NULL /\ h2.at[j].prev = NULL /\ h2.at[j].child = NULL
    BY <2>5, <2>8, PointerViews
  <2>10. h2.at[j] \in Cells(Kinds, AllNames)
    BY DEF Heaps
  <2> QED
    BY <2>2, <2>3, <2>9, <2>10, FreedIsCell, SameCell
<1> QED
  BY <1>2, <1>3, <1>4 DEF Sound

-----------------------------------------------------------------------------
(* What each function on a list does to sound items.                        *)
LEMMA SoundAdd ==
    ASSUME IsFiniteSet(Items), NEW h, NEW k, NEW r, Sound(h, k, r),
           NEW p \in Live(h), p \notin Refs(h), NEW i \in r, p \notin Tree(k, i)
    PROVE  LET h2 == cJSON_AddItemToArray(h, p, i)
               k2 == [k EXCEPT ![p] = Inserted(@, Len(@) + 1, i)]
           IN  /\ Sound(h2, k2, r \ {i}) /\ Relinked(h, k, h2, k2, p)
               /\ Live(h2) = Live(h) /\ Refs(h2) = Refs(h)
<1> DEFINE h2 == cJSON_AddItemToArray(h, p, i)
           k2 == [k EXCEPT ![p] = Inserted(@, Len(@) + 1, i)]
<1>1. /\ h \in Heaps(Kinds, AllNames) /\ Shows(h, k) /\ IsForest(Live(h), k, r)
      /\ p \in Items /\ i \in Items /\ NoChild(k, i) /\ k \in [Items -> Seq(Items)]
  BY SoundFacts
<1>2. h2 \in Heaps(Kinds, AllNames) /\ Relinked(h, k, h2, k2, p) /\ Shows(h2, k2)
  BY <1>1, AddImplemented
<1>8. OnlyLinks(h2, h)
  BY <1>2 DEF Relinked
<1>3. Len(k[p]) + 1 \in 1..(Len(k[p]) + 1)
  BY <1>1, LenProperties
<1>4. IsForest(Live(h), [k EXCEPT ![p] = Inserted(@, Len(k[p]) + 1, i)], r \ {i})
  BY <1>1, <1>3, InsertForest
<1>5. [k EXCEPT ![p] = Inserted(@, Len(k[p]) + 1, i)] = k2
  OBVIOUS
<1> HIDE DEF h2, k2
<1>7. Sound(h2, k2, r \ {i}) /\ Live(h2) = Live(h) /\ Refs(h2) = Refs(h)
  BY <1>2, <1>4, <1>5, <1>8, SoundLinks
<1> QED
  BY <1>2, <1>7 DEF h2, k2

LEMMA SoundInsert ==
    ASSUME IsFiniteSet(Items), NEW h, NEW k, NEW r, Sound(h, k, r),
           NEW p \in Live(h), p \notin Refs(h), NEW i \in r, p \notin Tree(k, i),
           NEW which \in Nat
    PROVE  LET h2 == cJSON_InsertItemInArray(h, p, which, i)
               c  == IF which < Len(k[p]) THEN which + 1 ELSE Len(k[p]) + 1
               k2 == [k EXCEPT ![p] = Inserted(@, c, i)]
           IN  /\ c \in 1..(Len(k[p]) + 1)
               /\ Sound(h2, k2, r \ {i}) /\ Relinked(h, k, h2, k2, p)
               /\ Live(h2) = Live(h) /\ Refs(h2) = Refs(h)
<1> DEFINE h2 == cJSON_InsertItemInArray(h, p, which, i)
           c  == IF which < Len(k[p]) THEN which + 1 ELSE Len(k[p]) + 1
           k2 == [k EXCEPT ![p] = Inserted(@, c, i)]
<1>1. /\ h \in Heaps(Kinds, AllNames) /\ Shows(h, k) /\ IsForest(Live(h), k, r)
      /\ p \in Items /\ i \in Items /\ NoChild(k, i) /\ k \in [Items -> Seq(Items)]
  BY SoundFacts
<1>2. h2 \in Heaps(Kinds, AllNames) /\ Relinked(h, k, h2, k2, p) /\ Shows(h2, k2)
  BY <1>1, InsertImplemented
<1>8. OnlyLinks(h2, h)
  BY <1>2 DEF Relinked
<1>3. c \in 1..(Len(k[p]) + 1)
  BY <1>1, LenProperties
<1> HIDE DEF c
<1>4. IsForest(Live(h), k2, r \ {i})
  BY <1>1, <1>3, InsertForest
<1> HIDE DEF h2, k2
<1>7. Sound(h2, k2, r \ {i}) /\ Live(h2) = Live(h) /\ Refs(h2) = Refs(h)
  BY <1>2, <1>4, <1>8, SoundLinks
<1> QED
  BY <1>2, <1>3, <1>7 DEF h2, k2, c

LEMMA SoundDetach ==
    ASSUME NEW h, NEW k, NEW r, Sound(h, k, r),
           NEW p \in Live(h), NEW c \in 1..Len(k[p])
    PROVE  LET h2 == cJSON_DetachItemViaPointer(h, p, k[p][c])
               k2 == [k EXCEPT ![p] = Without(@, c)]
           IN  /\ Sound(h2, k2, r \cup {k[p][c]}) /\ Relinked(h, k, h2, k2, p)
               /\ Live(h2) = Live(h) /\ Refs(h2) = Refs(h)
<1> DEFINE h2 == cJSON_DetachItemViaPointer(h, p, k[p][c])
           k2 == [k EXCEPT ![p] = Without(@, c)]
<1>1. /\ h \in Heaps(Kinds, AllNames) /\ Shows(h, k) /\ IsForest(Live(h), k, r)
      /\ p \in Items /\ k \in [Items -> Seq(Items)]
  BY SoundFacts
<1>2. h2 \in Heaps(Kinds, AllNames) /\ Relinked(h, k, h2, k2, p) /\ Shows(h2, k2)
  BY <1>1, DetachImplemented
<1>8. OnlyLinks(h2, h)
  BY <1>2 DEF Relinked
<1>4. IsForest(Live(h), k2, r \cup {k[p][c]})
  BY <1>1, DetachForest
<1> HIDE DEF h2, k2
<1>7. Sound(h2, k2, r \cup {k[p][c]}) /\ Live(h2) = Live(h) /\ Refs(h2) = Refs(h)
  BY <1>2, <1>4, <1>8, SoundLinks
<1> QED
  BY <1>2, <1>7 DEF h2, k2

LEMMA ReplaceForest ==
    ASSUME NEW l, NEW k, NEW r, IsForest(l, k, r),
           NEW p \in l, NEW c \in 1..Len(k[p]),
           NEW new \in r, p \notin Tree(k, new)
    PROVE  /\ IsForest(l, [k EXCEPT ![p] = Inserted(Without(@, c), c, new)],
                       (r \ {new}) \cup {k[p][c]})
           /\ k[p][c] \notin r
<1> DEFINE x  == k[p][c]
           k1 == [k EXCEPT ![p] = Without(@, c)]
           k2 == [k EXCEPT ![p] = Inserted(Without(@, c), c, new)]
           r1 == r \cup {x}
<1>1. k \in [Items -> Seq(Items)] /\ l \subseteq Items /\ r \subseteq l /\ p \in Items
  BY DEF IsForest, Typed
<1>2. IsForest(l, k1, r1) /\ x \in l \ r
  BY DetachForest
<1>3. /\ k1 \in [Items -> Seq(Items)] /\ k1[p] = Without(k[p], c)
      /\ \A j \in Items : j # p => k1[j] = k[j]
  BY <1>1, <1>2 DEF IsForest, Typed
<1>4. k[p] \in Seq(Items) /\ Len(k[p]) \in Nat
  BY <1>1, LenProperties
<1>5. Elements(k1[p]) \subseteq Elements(k[p]) /\ Len(k1[p]) = Len(k[p]) - 1
  BY <1>3, <1>4, WithoutElements, WithoutList
<1>6. c \in 1..(Len(k1[p]) + 1)
  BY <1>4, <1>5
<1>7. new \in Items
  BY <1>1
<1>8. p \notin Tree(k1, new)
  <2>1. \A j \in Items : Elements(k1[j]) \subseteq Elements(k[j])
    BY <1>3, <1>5
  <2>2. Tree(k1, new) \subseteq Tree(k, new)
    BY <1>1, <1>3, <1>7, <2>1, TreeMonotonic
  <2> QED
    BY <2>2
<1>9. k2 = [k1 EXCEPT ![p] = Inserted(@, c, new)]
  BY <1>1
<1>10. new \in r1 /\ r1 \ {new} = (r \ {new}) \cup {x}
  BY <1>2
<1> HIDE DEF k1, k2, r1, x
<1>11. IsForest(l, k2, r1 \ {new})
  BY <1>2, <1>6, <1>8, <1>9, <1>10, InsertForest
<1> QED
  BY <1>2, <1>10, <1>11 DEF k2, x

Swapped(h, k, r, p, c, new, h2) ==
    LET k2 == [k EXCEPT ![p] = Inserted(Without(@, c), c, new)]
    IN  /\ Sound(h2, k2, (r \ {new}) \cup {k[p][c]}) /\ Relinked(h, k, h2, k2, p)
        /\ Live(h2) = Live(h) /\ Refs(h2) = Refs(h)

LEMMA SoundReplace ==
    ASSUME NEW h, NEW k, NEW r, Sound(h, k, r),
           NEW p \in Live(h), NEW c \in 1..Len(k[p]),
           NEW new \in r, p \notin Tree(k, new)
    PROVE  Swapped(h, k, r, p, c, new, Replaced(h, p, k[p][c], new))
<1> DEFINE h2 == Replaced(h, p, k[p][c], new)
           k2 == [k EXCEPT ![p] = Inserted(Without(@, c), c, new)]
<1>1. /\ h \in Heaps(Kinds, AllNames) /\ Shows(h, k) /\ IsForest(Live(h), k, r)
      /\ p \in Items /\ k \in [Items -> Seq(Items)] /\ new \in Items /\ NoChild(k, new)
  BY SoundFacts
<1>2. h2 \in Heaps(Kinds, AllNames) /\ Relinked(h, k, h2, k2, p) /\ Shows(h2, k2)
  BY <1>1, ReplaceImplemented
<1>8. OnlyLinks(h2, h)
  BY <1>2 DEF Relinked
<1>4. IsForest(Live(h), k2, (r \ {new}) \cup {k[p][c]}) /\ k[p][c] \notin r
  BY <1>1, ReplaceForest
<1> HIDE DEF h2, k2
<1>7. Sound(h2, k2, (r \ {new}) \cup {k[p][c]}) /\ Live(h2) = Live(h) /\ Refs(h2) = Refs(h)
  BY <1>2, <1>4, <1>8, SoundLinks
<1> QED
  <2>1. Swapped(h, k, r, p, c, new, h2)
    BY <1>2, <1>7 DEF Swapped, k2
  <2> QED
    BY <2>1 DEF h2

-----------------------------------------------------------------------------
LEMMA HeapMade ==
    ASSUME NEW c \in [Items -> Cells(Kinds, AllNames)], NEW x \in Items,
           NEW cell \in Cells(Kinds, AllNames), NEW n \in Int, NEW a \in Int
    PROVE  [at |-> [c EXCEPT ![x] = cell], live |-> n, allocs |-> a]
              \in Heaps(Kinds, AllNames)
<1>1. [c EXCEPT ![x] = cell] \in [Items -> Cells(Kinds, AllNames)]
  OBVIOUS
<1> QED
  BY <1>1 DEF Heaps

(* An item of h becomes cell, and the heap h2.                              *)
Becoming(h, x, cell, h2) ==
    /\ x \in Items /\ cell \in Cells(Kinds, AllNames) /\ cell.type # "Freed"
    /\ h2 \in Heaps(Kinds, AllNames)
    /\ h2.at = [h.at EXCEPT ![x] = cell]
    /\ h2.live = h.live + SizeOf(cell) - SizeOf(h.at[x])

(* An item in use changes what it holds, not its place.                     *)
LEMMA Relabelled ==
    ASSUME IsFiniteSet(Items), NEW h, NEW k, NEW r, Sound(h, k, r),
           NEW x \in Live(h), NEW cell, NEW h2, Becoming(h, x, cell, h2),
           cell.isRef = h.at[x].isRef, cell.next = h.at[x].next,
           cell.prev = h.at[x].prev, cell.child = h.at[x].child
    PROVE  Sound(h2, k, r) /\ Live(h2) = Live(h) /\ Refs(h2) = Refs(h)
<1>1. /\ h \in Heaps(Kinds, AllNames) /\ Shows(h, k) /\ Counted(h)
      /\ IsForest(Live(h), k, r) /\ x \in Items
  BY SoundFacts
<1>2. /\ h2 \in Heaps(Kinds, AllNames) /\ h2.at = [h.at EXCEPT ![x] = cell]
      /\ cell \in Cells(Kinds, AllNames) /\ cell.type # "Freed"
      /\ h2.live = h.live + SizeOf(cell) - SizeOf(h.at[x])
  BY DEF Becoming
<1>3. h.at \in [Items -> Cells(Kinds, AllNames)] /\ h.live \in Int
  BY <1>1 DEF Heaps
<1>4. h2.at[x] = cell /\ \A j \in Items : j # x => h2.at[j] = h.at[j]
  BY <1>1, <1>2, <1>3
<1>5. Live(h2) = Live(h) /\ Refs(h2) = Refs(h)
  BY <1>1, <1>2, <1>4 DEF Live, Refs
<1>6. Nexts(h2) = Nexts(h) /\ Prevs(h2) = Prevs(h) /\ Firsts(h2) = Firsts(h)
  BY <1>4 DEF Nexts, Prevs, Firsts
<1>7. Shows(h2, k)
  BY <1>1, <1>5, <1>6 DEF Shows
<1>8. Counted(h2)
  <2>1. Cardinality(Blocks(h2.at)) = Cardinality(Blocks(h.at)) - SizeOf(h.at[x]) + SizeOf(cell)
    BY <1>1, <1>2, <1>3, OneCounted
  <2>2. SizeOf(h.at[x]) \in Int /\ SizeOf(cell) \in Int
    BY DEF SizeOf, BlocksOf
  <2>3. h.live = Cardinality(Blocks(h.at))
    BY <1>1 DEF Counted
  <2> QED
    BY <1>2, <1>3, <2>1, <2>2, <2>3 DEF Counted
<1>9. \A j \in Items \ Live(h2) : h2.at[j] = Freed
  BY <1>4, <1>5, SoundFacts
<1> QED
  BY <1>1, <1>2, <1>5, <1>7, <1>8, <1>9 DEF Sound

(* A free item becomes one without children, which is a root.               *)
LEMMA Appeared ==
    ASSUME IsFiniteSet(Items), NEW h, NEW k, NEW r, Sound(h, k, r),
           NEW x \in Items \ Live(h), NEW cell, NEW h2, Becoming(h, x, cell, h2),
           cell.next = NULL, cell.prev = NULL, cell.isRef \/ cell.child = NULL
    PROVE  Sound(h2, k, r \cup {x}) /\ Live(h2) = Live(h) \cup {x}
<1>1. /\ h \in Heaps(Kinds, AllNames) /\ Shows(h, k) /\ Counted(h)
      /\ IsForest(Live(h), k, r) /\ k[x] = <<>> /\ h.at[x] = Freed
      /\ k \in [Items -> Seq(Items)] /\ x \in Items
  BY SoundFacts
<1>2. /\ h2 \in Heaps(Kinds, AllNames) /\ h2.at = [h.at EXCEPT ![x] = cell]
      /\ cell \in Cells(Kinds, AllNames) /\ cell.type # "Freed"
      /\ h2.live = h.live + SizeOf(cell) - SizeOf(h.at[x])
  BY DEF Becoming
<1>3. h.at \in [Items -> Cells(Kinds, AllNames)] /\ h.live \in Int
  BY <1>1 DEF Heaps
<1>4. h2.at[x] = cell /\ \A j \in Items : j # x => h2.at[j] = h.at[j]
  BY <1>2, <1>3
<1>5. Live(h2) = Live(h) \cup {x}
  BY <1>2, <1>4 DEF Live
<1>6. /\ Freed.isRef = FALSE /\ Freed.next = NULL /\ Freed.prev = NULL
      /\ Freed.child = NULL
  BY DEF Freed, Struct
<1>7. /\ Nexts(h2) = Nexts(h) /\ Prevs(h2) = Prevs(h)
      /\ \A j \in Items : j # x => /\ Firsts(h2)[j] = Firsts(h)[j]
                                   /\ j \in Refs(h2) <=> j \in Refs(h)
      /\ (x \in Refs(h2) <=> cell.isRef) /\ Firsts(h2)[x] = cell.child
  BY <1>1, <1>4, <1>6 DEF Nexts, Prevs, Firsts, Refs
<1>8. Shows(h2, k)
  <2>1. Linking(Nexts(h), Prevs(h), Firsts(h), Refs(h), k)
    BY <1>1 DEF Shows
  <2>2. Firsts(h2) \in [Items -> Pointers]
    BY <1>2, PointerViews
  <2>3. After(<<>>, 0) = NULL
    BY DEF After
  <2>4. ASSUME NEW p \in Items
        PROVE  IF p \in Refs(h2) THEN k[p] = <<>> ELSE Firsts(h2)[p] = After(k[p], 0)
    <3>1. CASE p = x
      BY <1>1, <1>7, <2>3, <3>1
    <3>2. CASE p # x
      BY <1>7, <2>1, <3>2 DEF Linking
    <3> QED
      BY <3>1, <3>2
  <2>5. Linking(Nexts(h2), Prevs(h2), Firsts(h2), Refs(h2), k)
    BY <1>7, <2>1, <2>2, <2>4 DEF Linking
  <2> QED
    BY <2>5 DEF Shows
<1>9. Counted(h2)
  <2>1. Cardinality(Blocks(h2.at)) = Cardinality(Blocks(h.at)) - SizeOf(h.at[x]) + SizeOf(cell)
    <3>1. x \in Items /\ cell \in Cells(Kinds, AllNames)
          /\ h.at \in [Items -> Cells(Kinds, AllNames)]
      BY <1>1, <1>2, <1>3
    <3>2. Cardinality(Blocks([h.at EXCEPT ![x] = cell]))
             = Cardinality(Blocks(h.at)) - SizeOf(h.at[x]) + SizeOf(cell)
      BY <3>1, OneCounted
    <3> QED
      BY <1>2, <3>2
  <2>2. SizeOf(h.at[x]) \in Int /\ SizeOf(cell) \in Int
    BY DEF SizeOf, BlocksOf
  <2>3. h.live = Cardinality(Blocks(h.at))
    BY <1>1 DEF Counted
  <2> QED
    BY <1>2, <1>3, <2>1, <2>2, <2>3 DEF Counted
<1>10. \A j \in Items \ Live(h2) : h2.at[j] = Freed
  BY <1>4, <1>5, SoundFacts
<1>11. IsForest(Live(h) \cup {x}, k, r \cup {x})
  <2>1. IsNewTree({x}, k, x)
    <3>1. Len(k[x]) = 0 /\ Elements(k[x]) = {}
      BY <1>1 DEF Elements
    <3>2. x \in Tree(k, x)
      BY TreeHasRoot
    <3>3. \A j \in {x} : Elements(k[j]) \subseteq {x} \ {x}
      BY <3>1
    <3>4. \A a, b \in {x} : \A m \in 1..Len(k[a]), n \in 1..Len(k[b]) :
             k[a][m] = k[b][n] => a = b /\ m = n
      BY <3>1
    <3>5. {x} \subseteq Tree(k, x) /\ x \in {x}
      BY <3>2
    <3> QED
      BY <3>3, <3>4, <3>5 DEF IsNewTree
  <2>2. {x} \in SUBSET Items /\ x \in {x} /\ {x} \cap Live(h) = {}
        /\ \A a \in Items \ {x} : k[a] = k[a]
    OBVIOUS
  <2> DEFINE N == {x}
  <2>3. N \in SUBSET Items /\ x \in N /\ N \cap Live(h) = {}
        /\ IsNewTree(N, k, x)
    BY <2>1
  <2> HIDE DEF N
  <2>4. IsForest(Live(h) \cup N, k, r \cup {x})
    BY <1>1, <2>3, CreateForest
  <2> QED
    BY <2>4 DEF N
<1> QED
  BY <1>2, <1>5, <1>8, <1>9, <1>10, <1>11 DEF Sound

-----------------------------------------------------------------------------
(* The tree of an item without children.                                    *)
LEMMA TreeAlone ==
    ASSUME NEW k, NEW x \in Items, k[x] = <<>>
    PROVE  Tree(k, x) = {x}
<1>1. Elements(k[x]) = {}
  BY DEF Elements
<1>2. Closed(k, {x})
  BY <1>1 DEF Closed
<1>3. {x} \in SUBSET Items /\ x \in {x}
  OBVIOUS
<1>4. Tree(k, x) \subseteq {x}
  BY <1>2, <1>3, TreeLeast
<1> QED
  BY <1>4, TreeHasRoot

(* In h1 there is one item more than in h. *)
OneMore(h, k, r, h1, x) ==
    /\ x \in Items \ Live(h)
    /\ Sound(h1, k, r \cup {x}) /\ Live(h1) = Live(h) \cup {x}
    /\ ~h1.at[x].isRef
    /\ \A j \in Items : j # x => h1.at[j] = h.at[j]

(* Freeing a new item leaves everything as it was before it was made.         *)
LEMMA GivenUp ==
    ASSUME IsFiniteSet(Items), NEW h, NEW k, NEW r, Sound(h, k, r),
           NEW h1, NEW x, OneMore(h, k, r, h1, x)
    PROVE  cJSON_Delete(h1, x).at = h.at /\ Sound(cJSON_Delete(h1, x), k, r)
<1> DEFINE h2 == cJSON_Delete(h1, x)
           r1 == r \cup {x}
<1>1. /\ k \in [Items -> Seq(Items)] /\ x \in Items /\ x \notin Live(h)
      /\ k[x] = <<>> /\ h.at[x] = Freed /\ r \subseteq Live(h)
      /\ h \in Heaps(Kinds, AllNames)
      /\ \A j \in Items : j # x => h1.at[j] = h.at[j]
  BY SoundFacts DEF OneMore
<1>2. Tree(k, x) = {x}
  BY <1>1, TreeAlone
<1>3. Sound(h1, k, r1) /\ x \in r1
  BY DEF OneMore
<1> HIDE DEF r1
<1>4. /\ Sound(h2, Pruned(k, Tree(k, x)), r1 \ {x})
      /\ \A j \in Items : h2.at[j] = IF j \in Tree(k, x) THEN Freed ELSE h1.at[j]
  BY <1>3, DeleteImplemented
<1> HIDE DEF h2
<1>5. Pruned(k, {x}) = k
  BY <1>1 DEF Pruned
<1>6. r1 \ {x} = r
  BY <1>1 DEF r1
<1>7. Sound(h2, k, r)
  BY <1>2, <1>4, <1>5, <1>6
<1>8. h2.at = h.at
  <2>1. \A j \in Items : h2.at[j] = h.at[j]
    BY <1>1, <1>2, <1>4
  <2>2. h2.at \in [Items -> Cells(Kinds, AllNames)] /\ h.at \in [Items -> Cells(Kinds, AllNames)]
    BY <1>1, <1>7, SoundFacts DEF Heaps
  <2> QED
    BY <2>1, <2>2
<1> QED
  BY <1>7, <1>8 DEF h2

-----------------------------------------------------------------------------
(* Whatever is written to an item besides its links and whether it is a       *)
(* reference.                                                               *)
SameLinks(cell, old) ==
    /\ cell.isRef = old.isRef /\ cell.next = old.next
    /\ cell.prev = old.prev /\ cell.child = old.child

LEMMA StillOneMore ==
    ASSUME IsFiniteSet(Items), NEW h, NEW k, NEW r, NEW h1, NEW x,
           OneMore(h, k, r, h1, x), NEW cell, NEW h2, Becoming(h1, x, cell, h2),
           SameLinks(cell, h1.at[x])
    PROVE  OneMore(h, k, r, h2, x) /\ h2.at[x] = cell
<1> DEFINE r1 == r \cup {x}
<1>1. /\ x \in Items \ Live(h) /\ Sound(h1, k, r1) /\ Live(h1) = Live(h) \cup {x}
      /\ ~h1.at[x].isRef /\ \A j \in Items : j # x => h1.at[j] = h.at[j]
  BY DEF OneMore
<1>2. h1 \in Heaps(Kinds, AllNames)
  BY <1>1, SoundFacts
<1> HIDE DEF r1
<1>3. x \in Live(h1)
  BY <1>1
<1>4. cell.isRef = h1.at[x].isRef /\ cell.next = h1.at[x].next
      /\ cell.prev = h1.at[x].prev /\ cell.child = h1.at[x].child
  BY DEF SameLinks
<1>5. Sound(h2, k, r1) /\ Live(h2) = Live(h1)
  BY <1>1, <1>3, <1>4, Relabelled
<1>6. h2.at[x] = cell /\ \A j \in Items : j # x => h2.at[j] = h1.at[j]
  BY <1>2 DEF Becoming, Heaps
<1> QED
  BY <1>1, <1>4, <1>5, <1>6 DEF OneMore, r1

LEMMA StructIsCell ==
    ASSUME NEW type \in Kinds \ {"Freed"}
    PROVE  /\ Struct(type) \in Cells(Kinds, AllNames) /\ SizeOf(Struct(type)) = 1
           /\ Struct(type).type = type /\ ~Struct(type).isRef
           /\ Struct(type).next = NULL /\ Struct(type).prev = NULL
           /\ Struct(type).child = NULL /\ ~Struct(type).text
           /\ Struct(type).name = NULL /\ ~Struct(type).constName
BY DEF Struct, Cells, SizeOf, BlocksOf, OwnsText, OwnsName, AllNames, Pointers

LEMMA TakenOne ==
    ASSUME NEW h \in Heaps(Kinds, AllNames)
    PROVE  Taken(h) = [at |-> h.at, live |-> h.live + 1, allocs |-> h.allocs - 1]
<1>1. h = [at |-> h.at, live |-> h.live, allocs |-> h.allocs]
  BY DEF Heaps
<1>2. [h EXCEPT !.live = @ + 1] = [at |-> h.at, live |-> h.live + 1, allocs |-> h.allocs]
  BY <1>1
<1>3. Taken(h) = [[h EXCEPT !.live = @ + 1] EXCEPT !.allocs = @ - 1]
  BY DEF Taken
<1> QED
  BY <1>2, <1>3

LEMMA NewItemMade ==
    ASSUME IsFiniteSet(Items), NEW h, NEW k, NEW r, Sound(h, k, r),
           NEW type \in Kinds \ {"Freed"}
    PROVE  LET new == cJSON_New_Item(h, type)
           IN  \/ new.item = NULL /\ new.h = h
               \/ /\ OneMore(h, k, r, new.h, new.item)
                  /\ new.h.at[new.item] = Struct(type)
<1> DEFINE new == cJSON_New_Item(h, type)
           x   == CHOOSE i \in FreeItems(h) : TRUE
           h1  == [Taken(h) EXCEPT !.at[x] = Struct(type)]
<1>1. /\ h \in Heaps(Kinds, AllNames)
      /\ \A j \in Items \ Live(h) : h.at[j] = Freed
  BY SoundFacts
<1>2. h.at \in [Items -> Cells(Kinds, AllNames)] /\ h.live \in Int /\ h.allocs \in Int
      /\ h = [at |-> h.at, live |-> h.live, allocs |-> h.allocs]
  BY <1>1 DEF Heaps
<1>3. CASE ~Granted(h) \/ FreeItems(h) = {}
  BY <1>3 DEF cJSON_New_Item, Result
<1>4. CASE ~(~Granted(h) \/ FreeItems(h) = {})
  <2>1. x \in FreeItems(h)
    BY <1>4
  <2>2. x \in Items \ Live(h) /\ h.at[x] = Freed
    BY <1>1, <1>2, <2>1 DEF FreeItems, Live
  <2>3. new.item = x /\ new.h = h1
    <3>1. new = Result(h1, x)
      BY <1>4 DEF cJSON_New_Item
    <3> HIDE DEF new, x, h1
    <3> QED
      BY <3>1 DEF Result
  <2> HIDE DEF x, new
  <2>4. h1 = [at |-> [h.at EXCEPT ![x] = Struct(type)], live |-> h.live + 1,
              allocs |-> h.allocs - 1]
    <3>1. Taken(h) = [at |-> h.at, live |-> h.live + 1, allocs |-> h.allocs - 1]
      BY <1>1, TakenOne
    <3> QED
      BY <3>1
  <2> HIDE DEF h1
  <2>5. h1 \in Heaps(Kinds, AllNames)
    <3>1. h.at \in [Items -> Cells(Kinds, AllNames)] /\ x \in Items
          /\ h.live + 1 \in Int /\ h.allocs - 1 \in Int
          /\ Struct(type) \in Cells(Kinds, AllNames)
      BY <1>2, <2>2, StructIsCell
    <3> QED
      BY <2>4, <3>1, HeapMade
  <2>6. Becoming(h, x, Struct(type), h1)
    <3>1. h1.at = [h.at EXCEPT ![x] = Struct(type)] /\ h1.live = h.live + 1
      BY <2>4
    <3>2. SizeOf(Freed) = 0 /\ SizeOf(Struct(type)) = 1
      BY FreedIsCell, StructIsCell
    <3>3. h1.live = h.live + SizeOf(Struct(type)) - SizeOf(h.at[x])
      BY <1>2, <2>2, <3>1, <3>2
    <3> QED
      BY <2>2, <2>5, <3>1, <3>3, StructIsCell DEF Becoming
  <2>7. Sound(h1, k, r \cup {x}) /\ Live(h1) = Live(h) \cup {x}
    <3> DEFINE cell == Struct(type)
    <3>1. cell.next = NULL /\ cell.prev = NULL /\ cell.child = NULL
      BY StructIsCell
    <3> HIDE DEF cell
    <3> QED
      BY <2>2, <2>6, <3>1, Appeared DEF cell
  <2>8. h1.at[x] = Struct(type) /\ \A j \in Items : j # x => h1.at[j] = h.at[j]
    BY <1>2, <2>2, <2>4
  <2>9. OneMore(h, k, r, h1, x)
    BY <2>2, <2>7, <2>8, StructIsCell DEF OneMore
  <2> QED
    BY <2>3, <2>8, <2>9 DEF new
<1> QED
  BY <1>3, <1>4

-----------------------------------------------------------------------------
(* Writing one item of a heap. *)
LEMMA Written ==
    ASSUME NEW h \in Heaps(Kinds, AllNames), NEW x \in Items,
           NEW cell \in Cells(Kinds, AllNames)
    PROVE  LET h2 == [h EXCEPT !.at[x] = cell]
           IN  /\ h2 \in Heaps(Kinds, AllNames)
               /\ h2.at = [h.at EXCEPT ![x] = cell]
               /\ h2.live = h.live /\ h2.allocs = h.allocs
BY DEF Heaps

LEMMA TakenIsHeap ==
    ASSUME NEW h \in Heaps(Kinds, AllNames)
    PROVE  /\ Taken(h) \in Heaps(Kinds, AllNames) /\ Taken(h).at = h.at
           /\ Taken(h).live = h.live + 1 /\ Taken(h).allocs = h.allocs - 1
<1>1. /\ Taken(h) = [at |-> h.at, live |-> h.live + 1, allocs |-> h.allocs - 1]
      /\ h.at \in [Items -> Cells(Kinds, AllNames)] /\ h.live \in Int
      /\ h.allocs \in Int
  BY TakenOne DEF Heaps
<1> QED
  BY <1>1 DEF Heaps

LEMMA CellSize ==
    ASSUME NEW c \in Cells(Kinds, AllNames), c.type # "Freed"
    PROVE  /\ SizeOf(c) = 1 + (IF c.text /\ ~c.isRef THEN 1 ELSE 0)
                            + (IF c.name # NULL /\ ~c.constName THEN 1 ELSE 0)
           /\ SizeOf(c) \in Int
BY DEF SizeOf, BlocksOf, OwnsText, OwnsName

LEMMA CellOf ==
    ASSUME NEW h \in Heaps(Kinds, AllNames), NEW x \in Items
    PROVE  /\ h.at[x] \in Cells(Kinds, AllNames)
           /\ h.live \in Int /\ h.allocs \in Int
           /\ h.at \in [Items -> Cells(Kinds, AllNames)]
           /\ h = [at |-> h.at, live |-> h.live, allocs |-> h.allocs]
BY DEF Heaps

(* What is written to a cell, field by field.                               *)
LEMMA TextCell ==
    ASSUME NEW c \in Cells(Kinds, AllNames), c.type # "Freed", ~c.isRef, ~c.text
    PROVE  LET c2 == [c EXCEPT !.text = TRUE]
           IN  /\ c2 \in Cells(Kinds, AllNames) /\ c2.type # "Freed" /\ SameLinks(c2, c)
               /\ SizeOf(c2) = SizeOf(c) + 1
               /\ c2.name = c.name /\ c2.constName = c.constName
               /\ c2.type = c.type
<1> DEFINE c2 == [c EXCEPT !.text = TRUE]
<1>1. /\ c2 \in Cells(Kinds, AllNames) /\ c2.type # "Freed"
      /\ c2.name = c.name /\ c2.constName = c.constName /\ c2.text = TRUE
      /\ c2.isRef = c.isRef /\ c2.next = c.next /\ c2.prev = c.prev
      /\ c2.child = c.child /\ c2.type = c.type
  BY DEF Cells
<1> HIDE DEF c2
<1>2. SizeOf(c2) = SizeOf(c) + 1
  BY <1>1, CellSize
<1> QED
  BY <1>1, <1>2 DEF c2, SameLinks

Named(c, name, const) == [c EXCEPT !.name = name, !.constName = const]

NameCost(name, const) == IF name # NULL /\ ~const THEN 1 ELSE 0
OwnCost(c) == IF OwnsName(c) THEN 1 ELSE 0

LEMMA NameCell ==
    ASSUME NEW c \in Cells(Kinds, AllNames), c.type # "Freed",
           NEW name \in AllNames, NEW const \in BOOLEAN
    PROVE  /\ Named(c, name, const) \in Cells(Kinds, AllNames)
           /\ Named(c, name, const).type = c.type
           /\ SameLinks(Named(c, name, const), c)
           /\ SizeOf(Named(c, name, const)) = SizeOf(c) - OwnCost(c) + NameCost(name, const)
<1> DEFINE c2 == [c EXCEPT !.name = name, !.constName = const]
<1>1. /\ c2 \in Cells(Kinds, AllNames) /\ c2.type # "Freed"
      /\ c2.name = name /\ c2.constName = const /\ c2.text = c.text
      /\ c2.isRef = c.isRef /\ c2.next = c.next /\ c2.prev = c.prev
      /\ c2.child = c.child /\ c2.type = c.type
  BY DEF Cells
<1> HIDE DEF c2
<1>2. SizeOf(c2) = SizeOf(c) - (IF OwnsName(c) THEN 1 ELSE 0)
                     + (IF name # NULL /\ ~const THEN 1 ELSE 0)
  BY <1>1, CellSize DEF OwnsName
<1> QED
  BY <1>1, <1>2 DEF c2, SameLinks, Named, OwnCost, NameCost

LEMMA Costs ==
    ASSUME NEW c, NEW name, NEW const
    PROVE  OwnCost(c) \in Int /\ NameCost(name, const) \in Int
BY DEF OwnCost, NameCost

-----------------------------------------------------------------------------
(* The heap after a text, or a name, has been written to an item.           *)
LEMMA TextWritten ==
    ASSUME NEW h \in Heaps(Kinds, AllNames), NEW x \in Items,
           h.at[x].type # "Freed", ~h.at[x].isRef, ~h.at[x].text
    PROVE  LET c2 == [h.at[x] EXCEPT !.text = TRUE]
           IN  /\ Becoming(h, x, c2, [Taken(h) EXCEPT !.at[x].text = TRUE])
               /\ SameLinks(c2, h.at[x]) /\ c2.type = h.at[x].type
               /\ c2.name = h.at[x].name /\ c2.constName = h.at[x].constName
<1> DEFINE c2 == [h.at[x] EXCEPT !.text = TRUE]
           t  == Taken(h)
           h2 == [t EXCEPT !.at[x].text = TRUE]
<1>1. h.at[x] \in Cells(Kinds, AllNames) /\ h.live \in Int
  BY CellOf
<1>2. /\ t \in Heaps(Kinds, AllNames) /\ t.at = h.at /\ t.live = h.live + 1
  BY TakenIsHeap
<1>3. /\ c2 \in Cells(Kinds, AllNames) /\ c2.type # "Freed" /\ SameLinks(c2, h.at[x])
      /\ SizeOf(c2) = SizeOf(h.at[x]) + 1
      /\ c2.name = h.at[x].name /\ c2.constName = h.at[x].constName
      /\ c2.type = h.at[x].type
  BY <1>1, TextCell
<1> HIDE DEF t
<1>4. h2 = [t EXCEPT !.at[x] = c2]
  BY <1>2
<1> HIDE DEF c2, h2
<1>5. h2 \in Heaps(Kinds, AllNames) /\ h2.at = [t.at EXCEPT ![x] = c2] /\ h2.live = t.live
  BY <1>2, <1>3, <1>4, Written
<1>6. SizeOf(h.at[x]) \in Int
  BY <1>1, CellSize
<1>7. h2.live = h.live + SizeOf(c2) - SizeOf(h.at[x])
  BY <1>1, <1>2, <1>3, <1>5, <1>6
<1>8. Becoming(h, x, c2, h2)
  BY <1>2, <1>3, <1>5, <1>7 DEF Becoming
<1> QED
  BY <1>3, <1>8 DEF c2, h2, t

-----------------------------------------------------------------------------
LEMMA CellWritten ==
    ASSUME NEW h \in Heaps(Kinds, AllNames), NEW t \in Heaps(Kinds, AllNames), t.at = h.at,
           NEW x \in Items, NEW cell \in Cells(Kinds, AllNames), cell.type # "Freed",
           t.live = h.live + SizeOf(cell) - SizeOf(h.at[x])
    PROVE  Becoming(h, x, cell, [t EXCEPT !.at[x] = cell])
<1> DEFINE h2 == [t EXCEPT !.at[x] = cell]
<1>1. h2 \in Heaps(Kinds, AllNames) /\ h2.at = [t.at EXCEPT ![x] = cell] /\ h2.live = t.live
  BY Written
<1> HIDE DEF h2
<1>2. Becoming(h, x, cell, h2)
  BY <1>1 DEF Becoming
<1> QED
  BY <1>2 DEF h2

LEMMA CellsEqual ==
    ASSUME NEW a \in Cells(Kinds, AllNames), NEW b \in Cells(Kinds, AllNames),
           a.type = b.type, a.isRef = b.isRef, a.text = b.text, a.name = b.name,
           a.constName = b.constName, a.next = b.next, a.prev = b.prev, a.child = b.child
    PROVE  a = b
BY DEF Cells

(* Only one of the two fields is written. *)
LEMMA NameKept ==
    ASSUME NEW c \in Cells(Kinds, AllNames), NEW const \in BOOLEAN
    PROVE  Named(c, c.name, const) = [c EXCEPT !.constName = const]
<1> DEFINE a == [c EXCEPT !.name = c.name, !.constName = const]
           b == [c EXCEPT !.constName = const]
<1>1. a \in Cells(Kinds, AllNames) /\ b \in Cells(Kinds, AllNames)
  BY DEF Cells
<1>2. /\ a.type = b.type /\ a.isRef = b.isRef /\ a.text = b.text /\ a.name = b.name
      /\ a.constName = b.constName /\ a.next = b.next /\ a.prev = b.prev
      /\ a.child = b.child
  BY DEF Cells
<1> HIDE DEF a, b
<1>3. a = b
  BY <1>1, <1>2, CellsEqual
<1> QED
  BY <1>3 DEF a, b, Named

LEMMA ConstKept ==
    ASSUME NEW c \in Cells(Kinds, AllNames), NEW name \in AllNames
    PROVE  Named(c, name, c.constName) = [c EXCEPT !.name = name]
<1> DEFINE a == [c EXCEPT !.name = name, !.constName = c.constName]
           b == [c EXCEPT !.name = name]
<1>1. a \in Cells(Kinds, AllNames) /\ b \in Cells(Kinds, AllNames)
  BY DEF Cells
<1>2. /\ a.type = b.type /\ a.isRef = b.isRef /\ a.text = b.text /\ a.name = b.name
      /\ a.constName = b.constName /\ a.next = b.next /\ a.prev = b.prev
      /\ a.child = b.child
  BY DEF Cells
<1> HIDE DEF a, b
<1>3. a = b
  BY <1>1, <1>2, CellsEqual
<1> QED
  BY <1>3 DEF a, b, Named

LEMMA PaidBack ==
    ASSUME NEW h \in Heaps(Kinds, AllNames), NEW n \in Int
    PROVE  LET u == [h EXCEPT !.live = @ - n]
           IN  /\ u \in Heaps(Kinds, AllNames) /\ u.at = h.at
               /\ u.live = h.live - n
BY DEF Heaps

(* A name that is constant, or not there, costs nothing.                    *)
LEMMA ConstWritten ==
    ASSUME NEW h \in Heaps(Kinds, AllNames), NEW x \in Items, NEW const \in BOOLEAN,
           h.at[x].type # "Freed", h.at[x].name = NULL
    PROVE  LET c2 == Named(h.at[x], NULL, const)
           IN  /\ Becoming(h, x, c2, [h EXCEPT !.at[x].constName = const])
               /\ SameLinks(c2, h.at[x]) /\ c2.type = h.at[x].type
<1> DEFINE c2 == Named(h.at[x], NULL, const)
           h2 == [h EXCEPT !.at[x].constName = const]
<1>1. h.at[x] \in Cells(Kinds, AllNames) /\ h.live \in Int
  BY CellOf
<1>2. NULL \in AllNames
  BY DEF AllNames
<1>3. /\ c2 \in Cells(Kinds, AllNames) /\ c2.type = h.at[x].type
      /\ SameLinks(c2, h.at[x])
      /\ SizeOf(c2) = SizeOf(h.at[x]) - OwnCost(h.at[x]) + NameCost(NULL, const)
  BY <1>1, <1>2, NameCell
<1>4. c2 = [h.at[x] EXCEPT !.constName = const]
  BY <1>1, NameKept
<1>5. h2 = [h EXCEPT !.at[x] = c2]
  BY <1>4
<1> HIDE DEF c2, h2
<1>6. SizeOf(h.at[x]) \in Int
  BY <1>1, CellSize
<1>7. OwnCost(h.at[x]) = 0 /\ NameCost(NULL, const) = 0
  BY DEF OwnCost, NameCost, OwnsName
<1>8. h.live = h.live + SizeOf(c2) - SizeOf(h.at[x])
  BY <1>1, <1>3, <1>6, <1>7
<1>9. Becoming(h, x, c2, h2)
  BY <1>3, <1>5, <1>8, CellWritten
<1> QED
  BY <1>3, <1>9 DEF c2, h2

(* The name of an item that has none, which takes memory if it is a copy.     *)
LEMMA NameWritten ==
    ASSUME NEW h \in Heaps(Kinds, AllNames), NEW x \in Items, NEW name \in AllNames,
           h.at[x].type # "Freed", h.at[x].name = NULL,
           NEW t, t = IF name = NULL \/ h.at[x].constName THEN h ELSE Taken(h)
    PROVE  LET c2 == Named(h.at[x], name, h.at[x].constName)
           IN  /\ Becoming(h, x, c2, [t EXCEPT !.at[x].name = name])
               /\ SameLinks(c2, h.at[x])
<1> DEFINE const == h.at[x].constName
           c2 == Named(h.at[x], name, const)
           h2 == [t EXCEPT !.at[x].name = name]
<1>1. h.at[x] \in Cells(Kinds, AllNames) /\ h.live \in Int
  BY CellOf
<1>2. const \in BOOLEAN
  BY <1>1 DEF Cells
<1>3. /\ c2 \in Cells(Kinds, AllNames) /\ c2.type = h.at[x].type
      /\ SameLinks(c2, h.at[x])
      /\ SizeOf(c2) = SizeOf(h.at[x]) - OwnCost(h.at[x]) + NameCost(name, const)
  BY <1>1, <1>2, NameCell
<1>4. c2 = [h.at[x] EXCEPT !.name = name]
  BY <1>1, ConstKept
<1>5. t \in Heaps(Kinds, AllNames) /\ t.at = h.at
      /\ t.live = h.live + NameCost(name, const)
  BY <1>1, TakenIsHeap DEF NameCost
<1>6. h2 = [t EXCEPT !.at[x] = c2]
  BY <1>4, <1>5
<1> HIDE DEF c2, h2, const
<1>7. SizeOf(h.at[x]) \in Int
  BY <1>1, CellSize
<1>8. OwnCost(h.at[x]) = 0 /\ NameCost(name, const) \in Int
  BY Costs DEF OwnCost, OwnsName
<1>9. t.live = h.live + SizeOf(c2) - SizeOf(h.at[x])
  BY <1>1, <1>3, <1>5, <1>7, <1>8
<1>10. Becoming(h, x, c2, h2)
  BY <1>3, <1>5, <1>6, <1>9, CellWritten
<1> QED
  BY <1>3, <1>10 DEF c2, h2, const

(* Another name: the old one is given back, the new one is paid for if it is  *)
(* a copy.                                                                  *)
LEMMA RenamedWritten ==
    ASSUME NEW h \in Heaps(Kinds, AllNames), NEW x \in Items, h.at[x].type # "Freed",
           NEW name \in AllNames, NEW const \in BOOLEAN,
           NEW t, t = IF name = NULL \/ const THEN h ELSE Taken(h)
    PROVE  LET c2 == Named(h.at[x], name, const)
           IN  /\ Becoming(h, x, c2, Renamed(t, x, name, const))
               /\ SameLinks(c2, h.at[x]) /\ c2.type = h.at[x].type
<1> DEFINE c  == h.at[x]
           c2 == Named(c, name, const)
           c1 == [c EXCEPT !.name = name]
           t1 == [t EXCEPT !.at[x].name = name]
           t2 == [t1 EXCEPT !.at[x].constName = const]
           h2 == Renamed(t, x, name, const)
<1>1. c \in Cells(Kinds, AllNames) /\ h.live \in Int /\ OwnCost(c) \in Int
  BY CellOf, Costs
<1>2. /\ c2 \in Cells(Kinds, AllNames) /\ c2.type = c.type /\ SameLinks(c2, c)
      /\ SizeOf(c2) = SizeOf(c) - OwnCost(c) + NameCost(name, const)
  BY <1>1, NameCell
<1>3. t \in Heaps(Kinds, AllNames) /\ t.at = h.at /\ t.at[x] = c
      /\ t.live = h.live + NameCost(name, const)
  BY <1>1, TakenIsHeap DEF NameCost
<1>4. c1 \in Cells(Kinds, AllNames) /\ c2 = [c1 EXCEPT !.constName = const]
  BY <1>1 DEF Cells, Named
<1>5. h2 = [t2 EXCEPT !.live = @ - OwnCost(t.at[x])]
  BY DEF Renamed, OwnCost
<1>6. t1 = [t EXCEPT !.at[x] = c1]
  BY <1>3
<1> HIDE DEF t1, c1, c
<1>7. /\ t1 \in Heaps(Kinds, AllNames) /\ t1.at = [t.at EXCEPT ![x] = c1]
      /\ t1.live = t.live
  BY <1>3, <1>4, <1>6, Written
<1>8. t1.at[x] = c1 /\ [t1.at EXCEPT ![x] = c2] = [t.at EXCEPT ![x] = c2]
  <2>1. t.at \in [Items -> Cells(Kinds, AllNames)]
    BY <1>3, CellOf
  <2> HIDE DEF c2
  <2> QED
    BY <1>7, <2>1
<1>9. t2 = [t1 EXCEPT !.at[x] = c2]
  BY <1>4, <1>8
<1> HIDE DEF t2, c2, h2
<1>10. /\ t2 \in Heaps(Kinds, AllNames) /\ t2.at = [t1.at EXCEPT ![x] = c2]
       /\ t2.live = t1.live
  BY <1>2, <1>7, <1>9, Written
<1>11. /\ h2 \in Heaps(Kinds, AllNames) /\ h2.at = t2.at
       /\ h2.live = t2.live - OwnCost(c)
  BY <1>1, <1>3, <1>5, <1>10, PaidBack
<1>12. SizeOf(c) \in Int /\ NameCost(name, const) \in Int
  <2>1. c.type # "Freed"
    BY DEF c
  <2> QED
    BY <1>1, <2>1, CellSize, Costs
<1>13. h2.live = h.live + SizeOf(c2) - SizeOf(c)
  BY <1>1, <1>2, <1>3, <1>7, <1>10, <1>11, <1>12
<1>14. Becoming(h, x, c2, h2)
  BY <1>2, <1>3, <1>8, <1>10, <1>11, <1>13 DEF Becoming, c
<1> QED
  BY <1>2, <1>14 DEF c2, h2, c

-----------------------------------------------------------------------------
(* A call makes one more item, or none and changes nothing.                 *)
MakesOne(h, k, r, res) ==
    \/ res.item = NULL /\ res.h.at = h.at /\ Sound(res.h, k, r)
    \/ OneMore(h, k, r, res.h, res.item)

LEMMA FailedMakesNone ==
    ASSUME IsFiniteSet(Items), NEW h, NEW k, NEW r, Sound(h, k, r),
           NEW h1, NEW x, OneMore(h, k, r, h1, x)
    PROVE  MakesOne(h, k, r, Result(cJSON_Delete(h1, x), NULL))
<1> DEFINE h2 == cJSON_Delete(h1, x)
<1>1. h2.at = h.at /\ Sound(h2, k, r)
  BY GivenUp
<1> HIDE DEF h2
<1>2. MakesOne(h, k, r, Result(h2, NULL))
  BY <1>1 DEF MakesOne, Result
<1> QED
  BY <1>2 DEF h2

(* An item without a name and a text, of a certain constName. *)
Bare(h, x, const) ==
    /\ h \in Heaps(Kinds, AllNames) /\ x \in Items
    /\ h.at[x].type # "Freed" /\ ~h.at[x].isRef
    /\ h.at[x].name = NULL /\ h.at[x].constName = const

LEMMA MoreIsHeap ==
    ASSUME IsFiniteSet(Items), NEW h, NEW k, NEW r, NEW h1, NEW x,
           OneMore(h, k, r, h1, x)
    PROVE  h1 \in Heaps(Kinds, AllNames) /\ x \in Items /\ h1.at[x].type # "Freed"
           /\ ~h1.at[x].isRef
<1> DEFINE r1 == r \cup {x}
<1>1. Sound(h1, k, r1) /\ x \in Live(h1) /\ ~h1.at[x].isRef
  BY DEF OneMore
<1> HIDE DEF r1
<1>2. h1 \in Heaps(Kinds, AllNames)
  BY <1>1, SoundFacts
<1> QED
  BY <1>1, <1>2 DEF Live

LEMMA PlainCopied ==
    ASSUME IsFiniteSet(Items), NEW h, NEW k, NEW r, NEW h1, NEW x,
           OneMore(h, k, r, h1, x), h1.at[x].name = NULL, ~h1.at[x].text,
           NEW const \in BOOLEAN
    PROVE  LET h2 == [h1 EXCEPT !.at[x].constName = const]
           IN  OneMore(h, k, r, h2, x) /\ Bare(h2, x, const) /\ ~h2.at[x].text
<1> DEFINE h2 == [h1 EXCEPT !.at[x].constName = const]
           c2 == Named(h1.at[x], NULL, const)
<1>1. h1 \in Heaps(Kinds, AllNames) /\ x \in Items /\ h1.at[x].type # "Freed"
      /\ ~h1.at[x].isRef
  BY MoreIsHeap
<1>2. Becoming(h1, x, c2, h2) /\ SameLinks(c2, h1.at[x]) /\ c2.type = h1.at[x].type
  BY <1>1, ConstWritten
<1>3. c2.name = NULL /\ c2.constName = const /\ c2.text = h1.at[x].text
  <2>1. h1.at[x] \in Cells(Kinds, AllNames)
    BY <1>1, CellOf
  <2> QED
    BY <2>1 DEF Named, Cells
<1> HIDE DEF h2, c2
<1>4. OneMore(h, k, r, h2, x) /\ h2.at[x] = c2
  BY <1>2, StillOneMore
<1>5. h2 \in Heaps(Kinds, AllNames) /\ ~h2.at[x].isRef
  BY <1>4, MoreIsHeap
<1> QED
  BY <1>1, <1>2, <1>3, <1>4, <1>5 DEF Bare, h2

LEMMA TextCopied ==
    ASSUME IsFiniteSet(Items), NEW h, NEW k, NEW r, NEW h1, NEW x,
           OneMore(h, k, r, h1, x), ~h1.at[x].text, NEW const, Bare(h1, x, const)
    PROVE  LET h2 == [Taken(h1) EXCEPT !.at[x].text = TRUE]
           IN  OneMore(h, k, r, h2, x) /\ Bare(h2, x, const)
<1> DEFINE h2 == [Taken(h1) EXCEPT !.at[x].text = TRUE]
           c2 == [h1.at[x] EXCEPT !.text = TRUE]
<1>1. h1 \in Heaps(Kinds, AllNames) /\ x \in Items /\ h1.at[x].type # "Freed"
      /\ ~h1.at[x].isRef /\ h1.at[x].name = NULL /\ h1.at[x].constName = const
  BY DEF Bare
<1>2. /\ Becoming(h1, x, c2, h2) /\ SameLinks(c2, h1.at[x]) /\ c2.type = h1.at[x].type
      /\ c2.name = h1.at[x].name /\ c2.constName = h1.at[x].constName
  BY <1>1, TextWritten
<1> HIDE DEF h2, c2
<1>3. OneMore(h, k, r, h2, x) /\ h2.at[x] = c2
  BY <1>2, StillOneMore
<1>4. h2 \in Heaps(Kinds, AllNames) /\ ~h2.at[x].isRef
  BY <1>3, MoreIsHeap
<1> QED
  BY <1>1, <1>2, <1>3, <1>4 DEF Bare, h2

LEMMA NameCopied ==
    ASSUME IsFiniteSet(Items), NEW h, NEW k, NEW r, NEW h1, NEW x,
           OneMore(h, k, r, h1, x), NEW const, Bare(h1, x, const),
           NEW name \in AllNames, name # NULL
    PROVE  LET t == IF const THEN h1 ELSE Taken(h1)
           IN  OneMore(h, k, r, [t EXCEPT !.at[x].name = name], x)
<1> DEFINE t  == IF const THEN h1 ELSE Taken(h1)
           h2 == [t EXCEPT !.at[x].name = name]
           c2 == Named(h1.at[x], name, h1.at[x].constName)
<1>1. h1 \in Heaps(Kinds, AllNames) /\ x \in Items /\ h1.at[x].type # "Freed"
      /\ ~h1.at[x].isRef /\ h1.at[x].name = NULL /\ h1.at[x].constName = const
  BY DEF Bare
<1>2. t = IF name = NULL \/ h1.at[x].constName THEN h1 ELSE Taken(h1)
  BY <1>1
<1> HIDE DEF t
<1>3. Becoming(h1, x, c2, h2) /\ SameLinks(c2, h1.at[x])
  BY <1>1, <1>2, NameWritten
<1> HIDE DEF h2, c2
<1>4. OneMore(h, k, r, h2, x)
  BY <1>3, StillOneMore
<1> QED
  BY <1>4 DEF h2, t

-----------------------------------------------------------------------------
(* The values of an item are copied to a new one, or it is given up.        *)
LEMMA ValuesCopied ==
    ASSUME IsFiniteSet(Items), NEW h, NEW k, NEW r, Sound(h, k, r),
           NEW h1, NEW x, OneMore(h, k, r, h1, x), h1.at[x].name = NULL,
           ~h1.at[x].text, NEW i \in Items
    PROVE  MakesOne(h, k, r, CopiedValues(h1, i, x))
<1> DEFINE it    == h1.at[i]
           plain == [h1 EXCEPT !.at[x].constName = it.constName]
           full  == [Taken(plain) EXCEPT !.at[x].text = TRUE]
           text  == IF ~it.text THEN plain ELSE full
           paid  == IF it.constName THEN text ELSE Taken(text)
           last  == [paid EXCEPT !.at[x].name = it.name]
           named == IF it.name = NULL THEN text ELSE last
           res   == CopiedValues(h1, i, x)
<1>1. res = IF it.text /\ ~Granted(plain) THEN Failed(plain, x)
            ELSE IF OwnsName(it) /\ ~Granted(text) THEN Failed(text, x)
            ELSE Result(named, x)
  BY DEF CopiedValues
<1>2. it.constName \in BOOLEAN /\ it.name \in AllNames
  <2>1. h1 \in Heaps(Kinds, AllNames)
    BY MoreIsHeap
  <2>2. it \in Cells(Kinds, AllNames)
    BY <2>1, CellOf
  <2> QED
    BY <2>2 DEF Cells
<1> DEFINE const == it.constName
           name  == it.name
<1>3. OneMore(h, k, r, plain, x) /\ Bare(plain, x, const) /\ ~plain.at[x].text
  BY <1>2, PlainCopied
<1> HIDE DEF plain
<1>4. OneMore(h, k, r, full, x) /\ Bare(full, x, const)
  <2> HIDE DEF it, const
  <2> QED
    BY <1>3, TextCopied
<1>5. OneMore(h, k, r, text, x) /\ Bare(text, x, const)
  BY <1>3, <1>4
<1> HIDE DEF full, text
<1>6. name # NULL => OneMore(h, k, r, last, x)
  <2> HIDE DEF it
  <2>1. name \in AllNames
    BY <1>2
  <2>2. paid = IF const THEN text ELSE Taken(text)
    OBVIOUS
  <2> HIDE DEF paid, const, name
  <2> SUFFICES ASSUME name # NULL PROVE OneMore(h, k, r, [paid EXCEPT !.at[x].name = name], x)
    BY DEF name
  <2> QED
    BY <1>5, <2>1, <2>2, NameCopied
<1>7. OneMore(h, k, r, named, x)
  BY <1>5, <1>6
<1> HIDE DEF named
<1>8. /\ MakesOne(h, k, r, Failed(plain, x)) /\ MakesOne(h, k, r, Failed(text, x))
  BY <1>3, <1>5, FailedMakesNone DEF Failed
<1>9. MakesOne(h, k, r, Result(named, x))
  BY <1>7 DEF MakesOne, Result
<1> HIDE DEF res, it
<1> QED
  BY <1>1, <1>8, <1>9 DEF res

(* Copied, of an item in use: one more item or none.                        *)
LEMMA CopyMade ==
    ASSUME IsFiniteSet(Items), NEW h, NEW k, NEW r, Sound(h, k, r), NEW i \in Live(h)
    PROVE  MakesOne(h, k, r, Copied(h, i))
<1> DEFINE type == h.at[i].type
           new  == cJSON_New_Item(h, type)
<1>1. i \in Items /\ type \in Kinds \ {"Freed"}
  <2>1. h \in Heaps(Kinds, AllNames) /\ i \in Items
    BY SoundFacts DEF Live
  <2>2. h.at[i] \in Cells(Kinds, AllNames)
    BY <2>1, CellOf
  <2> QED
    BY <2>1, <2>2 DEF Cells, Live
<1>2. Copied(h, i) = IF new.item = NULL THEN new ELSE CopiedValues(new.h, i, new.item)
  BY DEF Copied
<1> HIDE DEF type
<1>3. \/ new.item = NULL /\ new.h = h
      \/ OneMore(h, k, r, new.h, new.item) /\ new.h.at[new.item] = Struct(type)
  BY <1>1, NewItemMade
<1> HIDE DEF new
<1>4. CASE new.item = NULL
  <2>1. new.h = h
    <3>1. NULL \notin Items
      BY SoundFacts DEF Shows, Linking
    <3> QED
      BY <1>3, <1>4, <3>1 DEF OneMore
  <2> QED
    BY <1>2, <1>4, <2>1 DEF MakesOne
<1>5. CASE new.item # NULL
  <2>1. /\ OneMore(h, k, r, new.h, new.item) /\ new.h.at[new.item].name = NULL
        /\ ~new.h.at[new.item].text
    BY <1>1, <1>3, <1>5, StructIsCell
  <2>2. MakesOne(h, k, r, CopiedValues(new.h, i, new.item))
    BY <1>1, <2>1, ValuesCopied
  <2> QED
    BY <1>2, <1>5, <2>2
<1> QED
  BY <1>4, <1>5

(* cJSON_CreateTrue, CreateString and the others: one more item or none.      *)
LEMMA ItemCreated ==
    ASSUME IsFiniteSet(Items), NEW h, NEW k, NEW r, Sound(h, k, r),
           NEW type \in Kinds \ {"Freed"}
    PROVE  /\ MakesOne(h, k, r, Create(h, type))
           /\ Create(h, type).item # NULL =>
                 Create(h, type).h.at[Create(h, type).item].type = type
<1> DEFINE new  == cJSON_New_Item(h, type)
           full == [Taken(new.h) EXCEPT !.at[new.item].text = TRUE]
           res  == Create(h, type)
<1>1. \/ new.item = NULL /\ new.h = h
      \/ OneMore(h, k, r, new.h, new.item) /\ new.h.at[new.item] = Struct(type)
  BY NewItemMade
<1>2. res = IF new.item = NULL \/ type # "String" THEN new
            ELSE IF Granted(new.h) THEN Result(full, new.item)
            ELSE Result(cJSON_Delete(new.h, new.item), NULL)
  BY DEF Create
<1>3. NULL \notin Items
  BY SoundFacts DEF Shows, Linking
<1> DEFINE x  == new.item
           h1 == new.h
<1> HIDE DEF new, res
<1>4. CASE x = NULL
  <2>1. res = new
    BY <1>2, <1>4
  <2>2. new.h = h /\ new.item = NULL
    BY <1>1, <1>3, <1>4 DEF OneMore
  <2>3. MakesOne(h, k, r, new)
    BY <2>2 DEF MakesOne
  <2> QED
    BY <2>1, <2>2, <2>3 DEF res
<1>5. CASE x # NULL
  <2>1. OneMore(h, k, r, h1, x) /\ h1.at[x] = Struct(type)
    BY <1>1, <1>5
  <2>2. h1.at[x].name = NULL /\ ~h1.at[x].text /\ h1.at[x].constName = FALSE
        /\ h1.at[x].type = type
    BY <2>1, StructIsCell DEF Struct
  <2>3. MakesOne(h, k, r, new)
    BY <2>1 DEF MakesOne
  <2>4. MakesOne(h, k, r, Result(cJSON_Delete(h1, x), NULL))
    BY <2>1, FailedMakesNone
  <2>5. MakesOne(h, k, r, Result(full, x)) /\ full.at[x].type = type
    <3>1. h1 \in Heaps(Kinds, AllNames) /\ x \in Items /\ h1.at[x].type # "Freed"
          /\ ~h1.at[x].isRef
      BY <2>1, MoreIsHeap
    <3> DEFINE c2 == [h1.at[x] EXCEPT !.text = TRUE]
               h2 == [Taken(h1) EXCEPT !.at[x].text = TRUE]
    <3>2. Becoming(h1, x, c2, h2) /\ SameLinks(c2, h1.at[x]) /\ c2.type = h1.at[x].type
      BY <2>2, <3>1, TextWritten
    <3> HIDE DEF c2, h2
    <3>3. OneMore(h, k, r, h2, x) /\ h2.at[x] = c2
      BY <2>1, <3>2, StillOneMore
    <3>4. MakesOne(h, k, r, Result(h2, x)) /\ h2.at[x].type = type
      BY <2>2, <3>2, <3>3 DEF MakesOne, Result
    <3> QED
      BY <3>4 DEF h2
  <2> HIDE DEF full
  <2>6. Result(full, x).item = x /\ Result(full, x).h = full
        /\ Result(cJSON_Delete(h1, x), NULL).item = NULL
    BY DEF Result
  <2>7. CASE type # "String"
    <3>1. res = new
      BY <1>2, <2>7
    <3> QED
      BY <2>2, <2>3, <3>1 DEF res
  <2>8. CASE type = "String" /\ Granted(h1)
    <3>1. res = Result(full, x)
      BY <1>2, <1>5, <2>8
    <3> QED
      BY <2>5, <2>6, <3>1 DEF res
  <2>9. CASE type = "String" /\ ~Granted(h1)
    <3>1. res = Result(cJSON_Delete(h1, x), NULL)
      BY <1>2, <1>5, <2>9
    <3> QED
      BY <2>4, <2>6, <3>1 DEF res
  <2> QED
    BY <2>7, <2>8, <2>9
<1> QED
  BY <1>4, <1>5 DEF res

-----------------------------------------------------------------------------
(* h has besides the items of h0, which are as they were, new ones: those      *)
(* under the new roots R.                                                    *)
Extends(h0, k0, r0, h, k, R) ==
    /\ Sound(h, k, r0 \cup R)
    /\ R \cap Live(h0) = {}
    /\ Live(h0) \subseteq Live(h)
    /\ \A j \in Live(h0) : h.at[j] = h0.at[j] /\ k[j] = k0[j]
    /\ \A j \in Live(h) \ Live(h0) : ~h.at[j].isRef

LEMMA ExtendsItself ==
    ASSUME NEW h, NEW k, NEW r, Sound(h, k, r), NEW h2, h2.at = h.at, Sound(h2, k, r)
    PROVE  Extends(h, k, r, h2, k, {})
<1>1. r \cup {} = r /\ Live(h2) = Live(h)
  BY DEF Live
<1>2. Sound(h2, k, r \cup {})
  BY <1>1
<1> QED
  BY <1>1, <1>2 DEF Extends

(* The new items have only new ones under them.                             *)
LEMMA NewUnderNew ==
    ASSUME NEW h0, NEW k0, NEW r0, Sound(h0, k0, r0), NEW h, NEW k, NEW R,
           Extends(h0, k0, r0, h, k, R)
    PROVE  /\ \A x \in Items \ Live(h0) : Elements(k[x]) \cap Live(h0) = {}
           /\ \A i \in R : Tree(k, i) \cap Live(h0) = {}
<1> DEFINE r == r0 \cup R
<1>1. Sound(h, k, r) /\ r0 \subseteq r /\ R \subseteq r
  BY DEF Extends
<1>2. IsForest(Live(h), k, r) /\ IsForest(Live(h0), k0, r0)
  BY <1>1, SoundFacts
<1>3. \A j \in Live(h0) : k[j] = k0[j]
  BY DEF Extends
<1>7. R \subseteq Items /\ R \cap Live(h0) = {} /\ k \in [Items -> Seq(Items)]
  BY <1>1, SoundFacts DEF Extends
<1> HIDE DEF r
<1>4. ASSUME NEW x \in Items \ Live(h0) PROVE Elements(k[x]) \cap Live(h0) = {}
  <2> DEFINE l0 == Live(h0)
             l  == Live(h)
  <2>1. IsForest(l0, k0, r0) /\ IsForest(l, k, r) /\ r0 \subseteq r
        /\ (\A j \in l0 : k[j] = k0[j]) /\ x \in Items \ l0
    BY <1>1, <1>2, <1>3
  <2> HIDE DEF l0, l
  <2>2. Elements(k[x]) \cap l0 = {}
    BY <2>1, NewStaysNew
  <2> QED
    BY <2>2 DEF l0
<1>5. Closed(k, Items \ Live(h0))
  <2>1. \A x \in Items : Elements(k[x]) \subseteq Items
    BY <1>7, ElementOfSeq DEF Elements
  <2> QED
    BY <1>4, <2>1 DEF Closed
<1>6. ASSUME NEW i \in R PROVE Tree(k, i) \cap Live(h0) = {}
  <2> DEFINE S == Items \ Live(h0)
  <2>1. i \in S /\ S \in SUBSET Items /\ Closed(k, S) /\ i \in Items
    BY <1>5, <1>7
  <2> HIDE DEF S
  <2>2. Tree(k, i) \subseteq S
    BY <2>1, TreeLeast
  <2> QED
    BY <2>2 DEF S
<1> QED
  BY <1>4, <1>6

(* Without new roots there is nothing new.                                  *)
LEMMA NothingNew ==
    ASSUME NEW h0, NEW k0, NEW r0, Sound(h0, k0, r0), NEW h, NEW k,
           Extends(h0, k0, r0, h, k, {})
    PROVE  h.at = h0.at /\ k = k0 /\ Sound(h, k0, r0)
<1>0. r0 \cup {} = r0
  OBVIOUS
<1>1. Sound(h, k, r0) /\ Live(h0) \subseteq Live(h)
      /\ \A j \in Live(h0) : h.at[j] = h0.at[j] /\ k[j] = k0[j]
  BY <1>0 DEF Extends
<1>2. /\ k \in [Items -> Seq(Items)] /\ k0 \in [Items -> Seq(Items)]
      /\ Live(h0) \in SUBSET Items /\ Live(h) \subseteq Items /\ r0 \subseteq Live(h0)
      /\ \A a \in Items : /\ a \notin Live(h) => k[a] = <<>> /\ h.at[a] = Freed
                          /\ a \notin Live(h0) => k0[a] = <<>> /\ h0.at[a] = Freed
                          /\ Elements(k0[a]) \subseteq Live(h0)
      /\ IsForest(Live(h), k, r0)
      /\ h \in Heaps(Kinds, AllNames) /\ h0 \in Heaps(Kinds, AllNames)
  BY <1>1, SoundFacts
<1>3. Closed(k, Live(h0))
  BY <1>1, <1>2 DEF Closed
<1>4. Live(h) = Live(h0)
  <2> SUFFICES ASSUME NEW j \in Live(h) PROVE j \in Live(h0)
    BY <1>1
  <2>1. PICK q \in r0 : j \in Tree(k, q)
    BY <1>2 DEF IsForest, Reached
  <2>2. q \in Live(h0) /\ q \in Items
    BY <1>2
  <2>3. Tree(k, q) \subseteq Live(h0)
    BY <1>2, <1>3, <2>2, TreeLeast
  <2> QED
    BY <2>1, <2>3
<1>5. k = k0
  BY <1>1, <1>2, <1>4
<1>6. h.at = h0.at
  <2>1. \A a \in Items : h.at[a] = h0.at[a]
    BY <1>1, <1>2, <1>4
  <2>2. h.at \in [Items -> Cells(Kinds, AllNames)] /\ h0.at \in [Items -> Cells(Kinds, AllNames)]
    BY <1>2 DEF Heaps
  <2> QED
    BY <2>1, <2>2
<1> QED
  BY <1>1, <1>5, <1>6

(* What a call that makes one more item adds to the new ones. *)
Grows(h0, k0, r0, h, k, R, res) ==
    \/ /\ res.item = NULL /\ Extends(h0, k0, r0, res.h, k, R)
       /\ Live(res.h) = Live(h)
    \/ /\ res.item \in Items \ Live(h) /\ k[res.item] = <<>>
       /\ Extends(h0, k0, r0, res.h, k, R \cup {res.item})
       /\ Live(res.h) = Live(h) \cup {res.item}

LEMMA ExtendsOneMore ==
    ASSUME IsFiniteSet(Items), NEW h0, NEW k0, NEW r0, Sound(h0, k0, r0),
           NEW h, NEW k, NEW R, Extends(h0, k0, r0, h, k, R),
           NEW res, MakesOne(h, k, r0 \cup R, res)
    PROVE  Grows(h0, k0, r0, h, k, R, res)
<1> DEFINE r == r0 \cup R
           x == res.item
           h1 == res.h
<1>1. Sound(h, k, r) /\ R \cap Live(h0) = {} /\ Live(h0) \subseteq Live(h)
      /\ (\A j \in Live(h0) : h.at[j] = h0.at[j] /\ k[j] = k0[j])
      /\ \A j \in Live(h) \ Live(h0) : ~h.at[j].isRef
  BY DEF Extends
<1>2. CASE x = NULL /\ h1.at = h.at /\ Sound(h1, k, r)
  <2>1. Live(h1) = Live(h)
    BY <1>2 DEF Live
  <2>2. Extends(h0, k0, r0, h1, k, R)
    BY <1>1, <1>2, <2>1 DEF Extends
  <2> QED
    BY <1>2, <2>1, <2>2 DEF Grows
<1>3. CASE OneMore(h, k, r, h1, x)
  <2>1. /\ x \in Items \ Live(h) /\ Live(h1) = Live(h) \cup {x} /\ ~h1.at[x].isRef
        /\ \A j \in Items : j # x => h1.at[j] = h.at[j]
        /\ Sound(h1, k, r \cup {x})
    BY <1>3 DEF OneMore
  <2>2. k[x] = <<>> /\ Live(h) \subseteq Items
    BY <1>1, <2>1, SoundFacts
  <2>3. r \cup {x} = r0 \cup (R \cup {x})
    OBVIOUS
  <2>4. Extends(h0, k0, r0, h1, k, R \cup {x})
    <3>1. Sound(h1, k, r0 \cup (R \cup {x}))
      BY <2>1, <2>3
    <3> HIDE DEF r
    <3>2. /\ (R \cup {x}) \cap Live(h0) = {} /\ Live(h0) \subseteq Live(h1)
          /\ \A j \in Live(h0) : h1.at[j] = h0.at[j] /\ k[j] = k0[j]
      BY <1>1, <2>1, <2>2
    <3>3. \A j \in Live(h1) \ Live(h0) : ~h1.at[j].isRef
      BY <1>1, <2>1, <2>2
    <3> QED
      BY <3>1, <3>2, <3>3 DEF Extends
  <2> QED
    BY <2>1, <2>2, <2>4 DEF Grows
<1> QED
  BY <1>2, <1>3 DEF MakesOne

-----------------------------------------------------------------------------
(* Of two roots none is under the other. *)
LEMMA RootsApart ==
    ASSUME NEW l, NEW k, NEW r, IsForest(l, k, r), NEW a \in r, NEW b \in r, a # b
    PROVE  a \notin Tree(k, b)
<1>1. /\ k \in [Items -> Seq(Items)] /\ b \in Items
      /\ \A q \in Items : a \notin Elements(k[q])
  BY DEF IsForest, Typed, NoChild
<1>2. a \in Tree(k, b) => \E q \in Tree(k, b) : a \in Elements(k[q])
  BY <1>1, TreeParent
<1>3. Tree(k, b) \subseteq Items
  BY DEF Tree
<1> QED
  BY <1>1, <1>2, <1>3

(* A new tree is freed. *)
LEMMA ExtendsDelete ==
    ASSUME IsFiniteSet(Items), NEW h0, NEW k0, NEW r0, Sound(h0, k0, r0),
           NEW h, NEW k, NEW R, Extends(h0, k0, r0, h, k, R), NEW i \in R
    PROVE  LET k2 == Pruned(k, Tree(k, i))
           IN  /\ Extends(h0, k0, r0, cJSON_Delete(h, i), k2, R \ {i})
               /\ \A j \in R \ {i} : k2[j] = k[j]
<1> DEFINE r  == r0 \cup R
           h2 == cJSON_Delete(h, i)
           G  == Tree(k, i)
           k2 == Pruned(k, G)
<1>1. /\ Sound(h, k, r) /\ R \cap Live(h0) = {} /\ Live(h0) \subseteq Live(h)
      /\ (\A j \in Live(h0) : h.at[j] = h0.at[j] /\ k[j] = k0[j])
      /\ (\A j \in Live(h) \ Live(h0) : ~h.at[j].isRef)
      /\ R \subseteq r
  BY DEF Extends
<1>2. r0 \subseteq Live(h0) /\ Live(h0) \subseteq Items
  BY SoundFacts
<1>3. G \cap Live(h0) = {}
  BY NewUnderNew
<1>4. r \ {i} = r0 \cup (R \ {i})
  BY <1>1, <1>2
<1> HIDE DEF r
<1>5. i \in r
  BY <1>1
<1>6. /\ Sound(h2, k2, r \ {i}) /\ Live(h2) = Live(h) \ G
      /\ \A j \in Items : h2.at[j] = IF j \in G THEN Freed ELSE h.at[j]
  BY <1>1, <1>5, DeleteImplemented
<1>7. \A j \in R \ {i} : j \in Items /\ j \notin G
  <2>1. IsForest(Live(h), k, r)
    BY <1>1, SoundFacts
  <2>2. \A j \in R : j \in r /\ j \in Items
    BY <1>1, <2>1 DEF IsForest, Typed
  <2> QED
    BY <1>5, <2>1, <2>2, RootsApart
<1> HIDE DEF h2, G
<1>8. \A j \in Items : j \notin G => k2[j] = k[j]
  BY DEF Pruned
<1>9. Extends(h0, k0, r0, h2, k2, R \ {i})
  <2>1. Sound(h2, k2, r0 \cup (R \ {i}))
    BY <1>4, <1>6
  <2>2. (R \ {i}) \cap Live(h0) = {} /\ Live(h0) \subseteq Live(h2)
    BY <1>1, <1>3, <1>6
  <2>3. \A j \in Live(h0) : h2.at[j] = h0.at[j] /\ k2[j] = k0[j]
    BY <1>1, <1>2, <1>3, <1>6, <1>8
  <2>4. \A j \in Live(h2) \ Live(h0) : ~h2.at[j].isRef
    <3> SUFFICES ASSUME NEW j \in Live(h2) \ Live(h0) PROVE ~h2.at[j].isRef
      OBVIOUS
    <3>1. j \in Live(h) \ Live(h0) /\ j \notin G /\ j \in Items
      BY <1>6 DEF Live
    <3> QED
      BY <1>1, <1>6, <3>1
  <2> HIDE DEF k2
  <2> QED
    BY <2>1, <2>2, <2>3, <2>4 DEF Extends
<1> QED
  BY <1>7, <1>8, <1>9 DEF h2, G

-----------------------------------------------------------------------------
LastChild(s) == IF s = <<>> THEN NULL ELSE s[Len(s)]

(* Linking behind the last of a list is adding to it. *)
LEMMA BehindAdds ==
    ASSUME IsFiniteSet(Items), NEW h, NEW k, NEW r, Sound(h, k, r),
           NEW p \in Items, p \notin Refs(h), NEW i, i # NULL
    PROVE  Behind(h, p, LastChild(k[p]), i) = cJSON_AddItemToArray(h, p, i)
<1> DEFINE s == k[p]
<1>1. /\ h \in Heaps(Kinds, AllNames) /\ Shows(h, k) /\ NULL \notin Items
      /\ s \in Seq(Items)
  BY SoundFacts
<1>2. Children(h.at, p) = s
  BY <1>1, ChildrenShown
<1>3. h.at[p].child = After(s, 0)
  BY <1>1, ShownFacts, PointerViews
<1>4. Len(s) \in Nat /\ (Len(s) = 0 <=> s = <<>>) /\ \A n \in 1..Len(s) : s[n] \in Items
  BY <1>1, LenProperties, EmptySeq, ElementOfSeq
<1> HIDE DEF s
<1>5. CASE s = <<>>
  <2>1. h.at[p].child = NULL
    BY <1>3, <1>4, <1>5 DEF After
  <2> QED
    BY <1>5, <2>1 DEF Behind, cJSON_AddItemToArray, LastChild, s
<1>6. CASE s # <<>>
  <2>1. 0 < Len(s) /\ 0 + 1 \in 1..Len(s) /\ Len(s) \in 1..Len(s)
    BY <1>4, <1>6
  <2>2. h.at[p].child # NULL
    BY <1>1, <1>3, <1>4, <2>1 DEF After
  <2>3. s[Len(s)] # NULL
    BY <1>1, <1>4, <2>1
  <2> QED
    BY <1>2, <1>6, <2>2, <2>3 DEF Behind, cJSON_AddItemToArray, LastChild, LastOf, s
<1> QED
  BY <1>5, <1>6

-----------------------------------------------------------------------------
LinkedBehind(h0, k0, r0, h, k, R, p, i, h2) ==
    \E k2 : /\ Extends(h0, k0, r0, h2, k2, R \ {i}) /\ Live(h2) = Live(h)
            /\ LastChild(k2[p]) = i
            /\ \A j \in Items : j # p => k2[j] = k[j]

(* A new item is linked behind the last one in the list of another.         *)
LEMMA LinksBehind ==
    ASSUME IsFiniteSet(Items), NEW h0, NEW k0, NEW r0, Sound(h0, k0, r0),
           NEW h, NEW k, NEW R, Extends(h0, k0, r0, h, k, R),
           NEW p \in R, NEW i \in R, p # i
    PROVE  LinkedBehind(h0, k0, r0, h, k, R, p, i, Behind(h, p, LastChild(k[p]), i))
<1> DEFINE r  == r0 \cup R
           h2 == Behind(h, p, LastChild(k[p]), i)
           k2 == [k EXCEPT ![p] = Inserted(@, Len(@) + 1, i)]
<1>1. /\ Sound(h, k, r) /\ R \cap Live(h0) = {} /\ Live(h0) \subseteq Live(h)
      /\ (\A j \in Live(h0) : h.at[j] = h0.at[j] /\ k[j] = k0[j])
      /\ (\A j \in Live(h) \ Live(h0) : ~h.at[j].isRef)
      /\ R \subseteq r
  BY DEF Extends
<1>2. r0 \subseteq Live(h0) /\ Live(h0) \subseteq Items
  BY SoundFacts
<1>3. (\A x \in Items \ Live(h0) : Elements(k[x]) \cap Live(h0) = {})
  BY NewUnderNew
<1>4. r \ {i} = r0 \cup (R \ {i})
  BY <1>1, <1>2
<1> HIDE DEF r
<1>5. /\ h \in Heaps(Kinds, AllNames) /\ Shows(h, k) /\ NULL \notin Items
      /\ k \in [Items -> Seq(Items)] /\ r \subseteq Live(h) /\ Live(h) \subseteq Items
      /\ IsForest(Live(h), k, r)
  BY <1>1, SoundFacts
<1>6. /\ i \in r /\ p \in r /\ p \in Live(h) /\ p \in Items /\ i \in Items /\ i # NULL
      /\ i \notin Live(h0) /\ p \notin Live(h0)
  BY <1>1, <1>5
<1>7. p \notin Refs(h)
  BY <1>1, <1>6 DEF Refs
<1>8. p \notin Tree(k, i)
  BY <1>5, <1>6, RootsApart
<1>9. h2 = cJSON_AddItemToArray(h, p, i)
  BY <1>1, <1>6, <1>7, BehindAdds
<1> HIDE DEF h2
<1>10. /\ Sound(h2, k2, r \ {i}) /\ Relinked(h, k, h2, k2, p)
       /\ Live(h2) = Live(h) /\ Refs(h2) = Refs(h)
  BY <1>1, <1>6, <1>7, <1>8, <1>9, SoundAdd
<1> DEFINE s == k[p]
           t == Inserted(s, Len(s) + 1, i)
<1>11. /\ s \in Seq(Items) /\ Len(s) \in Nat /\ Len(s) + 1 \in 1..(Len(s) + 1)
  BY <1>5, <1>6, LenProperties
<1>12. /\ t \in Seq(Items) /\ Len(t) = Len(s) + 1 /\ t[Len(s) + 1] = i
       /\ Elements(t) = Elements(s) \cup {i}
  <2> HIDE DEF s
  <2>1. /\ t \in Seq(Items) /\ Len(t) = Len(s) + 1
        /\ \A n \in 1..(Len(s) + 1) :
              t[n] = IF n < Len(s) + 1 THEN s[n] ELSE IF n = Len(s) + 1 THEN i ELSE s[n - 1]
    BY <1>6, <1>11, InsertedList
  <2>2. Elements(t) = Elements(s) \cup {i}
    BY <1>6, <1>11, InsertedElements
  <2>3. t[Len(s) + 1] = i
    BY <1>11, <2>1
  <2> QED
    BY <2>1, <2>2, <2>3
<1>13. k2[p] = t /\ \A j \in Items : j # p => k2[j] = k[j]
  BY <1>5, <1>6
<1>14. LastChild(k2[p]) = i
  <2>1. t # <<>>
    BY <1>11, <1>12, EmptySeq
  <2> HIDE DEF t
  <2> QED
    BY <1>12, <1>13, <2>1 DEF LastChild
<1> HIDE DEF k2, t
<1>15. Extends(h0, k0, r0, h2, k2, R \ {i})
  <2>1. Sound(h2, k2, r0 \cup (R \ {i}))
    BY <1>4, <1>10
  <2>2. (R \ {i}) \cap Live(h0) = {} /\ Live(h0) \subseteq Live(h2)
    BY <1>1, <1>10
  <2>3. \A j \in Live(h0) : k2[j] = k0[j]
    BY <1>1, <1>2, <1>6, <1>13
  <2>4. ASSUME NEW j \in Live(h0) PROVE h2.at[j] = h0.at[j]
    <3>1. j \in Items /\ j # p /\ j # i /\ j \notin Elements(s)
      BY <1>2, <1>3, <1>6
    <3>2. j \notin Elements(k[p]) /\ j \notin Elements(k2[p])
      BY <1>12, <1>13, <3>1
    <3>3. h2 \in Heaps(Kinds, AllNames) /\ Shows(h2, k2)
      BY <1>10, SoundFacts
    <3>4. h2.at[j] = h.at[j]
      BY <1>5, <1>6, <1>10, <3>1, <3>2, <3>3, OthersStay
    <3> QED
      BY <1>1, <3>4
  <2>5. ASSUME NEW j \in Live(h2) \ Live(h0) PROVE ~h2.at[j].isRef
    <3>1. j \in Live(h) \ Live(h0) /\ j \in Items
      BY <1>5, <1>10
    <3>2. h2.at[j].isRef = h.at[j].isRef
      BY <1>10, <3>1 DEF Relinked, OnlyLinks
    <3> QED
      BY <1>1, <3>1, <3>2
  <2> QED
    BY <2>1, <2>2, <2>3, <2>4, <2>5 DEF Extends
<1> QED
  <2>1. LinkedBehind(h0, k0, r0, h, k, R, p, i, h2)
    BY <1>10, <1>13, <1>14, <1>15 DEF LinkedBehind
  <2> QED
    BY <2>1 DEF h2

-----------------------------------------------------------------------------
Fills == [h : Heaps(Kinds, AllNames), item : Pointers, last : Pointers]

(* The array f.item is being filled, or it was given up. *)
Filling(h0, k0, r0, f) ==
    IF f.item = NULL THEN f.h.at = h0.at /\ Sound(f.h, k0, r0)
    ELSE \E k : /\ Extends(h0, k0, r0, f.h, k, {f.item})
                /\ f.last = LastChild(k[f.item])

LEMMA FillGivesUp ==
    ASSUME IsFiniteSet(Items), NEW h0, NEW k0, NEW r0, Sound(h0, k0, r0),
           NEW h, NEW k, NEW x, Extends(h0, k0, r0, h, k, {x})
    PROVE  cJSON_Delete(h, x).at = h0.at /\ Sound(cJSON_Delete(h, x), k0, r0)
<1> DEFINE R  == {x}
           h2 == cJSON_Delete(h, x)
           k2 == Pruned(k, Tree(k, x))
<1>1. Extends(h0, k0, r0, h, k, R) /\ x \in R /\ R \ {x} = {}
  OBVIOUS
<1> HIDE DEF R
<1>2. Extends(h0, k0, r0, h2, k2, R \ {x})
  BY <1>1, ExtendsDelete
<1> HIDE DEF h2, k2
<1>3. Extends(h0, k0, r0, h2, k2, {})
  BY <1>1, <1>2
<1>4. h2.at = h0.at /\ Sound(h2, k0, r0)
  BY <1>3, NothingNew
<1> QED
  BY <1>4 DEF h2

LEMMA FillGoesOn ==
    ASSUME IsFiniteSet(Items), NEW h0, NEW k0, NEW r0, Sound(h0, k0, r0),
           NEW f \in Fills, Filling(h0, k0, r0, f), f.item # NULL,
           NEW type \in Kinds \ {"Freed"}
    PROVE  FillStep(f, type) \in Fills /\ Filling(h0, k0, r0, FillStep(f, type))
<1> DEFINE new == Create(f.h, type)
           p   == f.item
           R   == {p}
           f2  == FillStep(f, type)
<1>1. PICK k : Extends(h0, k0, r0, f.h, k, R) /\ f.last = LastChild(k[p])
  BY DEF Filling
<1>2. NULL \notin Items /\ p \in R /\ p \in Items
  BY SoundFacts DEF Fills, Pointers
<1> DEFINE r == r0 \cup R
<1>3. Sound(f.h, k, r)
  BY <1>1 DEF Extends
<1>4. MakesOne(f.h, k, r, new)
  BY <1>3, ItemCreated
<1> DEFINE x == new.item
           h1 == new.h
           h2 == cJSON_Delete(h1, p)
           h3 == Behind(h1, p, f.last, x)
<1>5. f2 = IF x = NULL THEN [h |-> h2, item |-> NULL, last |-> NULL]
           ELSE [h |-> h3, item |-> p, last |-> x]
  BY DEF FillStep
<1> HIDE DEF new, R, f2, h2, h3
<1>6. \/ /\ x = NULL /\ Extends(h0, k0, r0, h1, k, R)
      \/ /\ x \in Items \ Live(f.h) /\ k[x] = <<>>
         /\ Extends(h0, k0, r0, h1, k, R \cup {x})
  <2> DEFINE h == f.h
  <2>1. Extends(h0, k0, r0, h, k, R) /\ MakesOne(h, k, r0 \cup R, new)
    BY <1>1, <1>4
  <2> HIDE DEF h
  <2>2. Grows(h0, k0, r0, h, k, R, new)
    BY <2>1, ExtendsOneMore
  <2> QED
    BY <2>2 DEF h, Grows
<1>7. CASE x = NULL
  <2>1. Extends(h0, k0, r0, h1, k, R)
    BY <1>2, <1>6, <1>7
  <2>2. h2.at = h0.at /\ Sound(h2, k0, r0)
    BY <2>1, FillGivesUp DEF R, h2
  <2>3. f2 = [h |-> h2, item |-> NULL, last |-> NULL]
    BY <1>5, <1>7
  <2>4. h2 \in Heaps(Kinds, AllNames)
    BY <2>2, SoundFacts
  <2>5. Filling(h0, k0, r0, f2)
    BY <2>2, <2>3 DEF Filling
  <2> QED
    BY <2>3, <2>4, <2>5 DEF Fills, Pointers, f2
<1>8. CASE x # NULL
  <2> DEFINE R2 == R \cup {x}
  <2>1. x \in Items \ Live(f.h) /\ Extends(h0, k0, r0, h1, k, R2)
    BY <1>6, <1>8
  <2>2. p \in Live(f.h)
    BY <1>2, <1>3, SoundFacts
  <2>3. p \in R2 /\ x \in R2 /\ p # x
    BY <1>2, <2>1, <2>2
  <2>4. R2 \ {x} = {p}
    BY <2>3 DEF R
  <2> HIDE DEF R2, x, h1
  <2>5. h3 = Behind(h1, p, LastChild(k[p]), x)
    BY <1>1 DEF h3, h1, x
  <2>13. LinkedBehind(h0, k0, r0, h1, k, R2, p, x, h3)
    BY <2>1, <2>3, <2>5, LinksBehind
  <2>6. PICK k2 : Extends(h0, k0, r0, h3, k2, R2 \ {x}) /\ LastChild(k2[p]) = x
    BY <2>13 DEF LinkedBehind
  <2>7. f2 = [h |-> h3, item |-> p, last |-> x]
    BY <1>5, <1>8 DEF x
  <2>8. h3 \in Heaps(Kinds, AllNames)
    <3>1. Sound(h3, k2, r0 \cup (R2 \ {x}))
      BY <2>6 DEF Extends
    <3> QED
      BY <3>1, SoundFacts
  <2>9. Extends(h0, k0, r0, h3, k2, {p})
    BY <2>4, <2>6
  <2> HIDE DEF p
  <2>10. p # NULL /\ f2.item = p /\ f2.h = h3 /\ f2.last = x
    BY <2>7 DEF p
  <2>11. Filling(h0, k0, r0, f2)
    BY <2>6, <2>9, <2>10 DEF Filling
  <2>12. f2 \in Fills
    BY <1>2, <2>1, <2>7, <2>8 DEF Fills, Pointers
  <2> QED
    BY <2>11, <2>12 DEF f2
<1> QED
  BY <1>7, <1>8

-----------------------------------------------------------------------------
(* What steps within S stays there.                                         *)
LEMMA RunsIn ==
    ASSUME NEW S, NEW a \in S, NEW step \in [S -> S], NEW r, r[0] = a,
           \A n \in Nat : r[n] \in S => r[n + 1] = step[r[n]]
    PROVE  \A n \in Nat : r[n] \in S
<1> DEFINE T == {n \in Nat : r[n] \in S}
<1>1. 0 \in T
  OBVIOUS
<1>2. ASSUME NEW n \in T PROVE n + 1 \in T
  <2>1. n \in Nat /\ r[n] \in S /\ n + 1 \in Nat
    OBVIOUS
  <2>2. r[n + 1] = step[r[n]]
    BY <2>1
  <2> QED
    BY <2>1, <2>2
<1>3. T \in SUBSET Nat
  OBVIOUS
<1> HIDE DEF T
<1>4. T = Nat
  BY <1>1, <1>2, <1>3, SetInduction
<1> QED
  BY <1>4 DEF T

(* A call makes one more tree, or nothing and changes nothing.              *)
Makes(h, k, r, res) ==
    IF res.item = NULL THEN res.h.at = h.at /\ Sound(res.h, k, r)
    ELSE \E k2 : Extends(h, k, r, res.h, k2, {res.item})

StartsWith(h, k, r, res) ==
    \/ res.item = NULL /\ res.h.at = h.at /\ Sound(res.h, k, r)
    \/ /\ res.item \in Items \ Live(h) /\ k[res.item] = <<>>
       /\ Extends(h, k, r, res.h, k, {res.item})
       /\ Live(res.h) = Live(h) \cup {res.item}

LEMMA FirstMade ==
    ASSUME IsFiniteSet(Items), NEW h, NEW k, NEW r, Sound(h, k, r),
           NEW res, MakesOne(h, k, r, res)
    PROVE  StartsWith(h, k, r, res)
<1>1. Extends(h, k, r, h, k, {})
  BY ExtendsItself
<1>2. r \cup {} = r /\ {} \cup {res.item} = {res.item}
  OBVIOUS
<1>3. MakesOne(h, k, r \cup {}, res)
  BY <1>2
<1>4. Grows(h, k, r, h, k, {}, res)
  BY <1>1, <1>3, ExtendsOneMore
<1>5. CASE res.item = NULL /\ res.h.at = h.at /\ Sound(res.h, k, r)
  BY <1>5 DEF StartsWith
<1>6. CASE OneMore(h, k, r, res.h, res.item)
  <2>1. res.item # NULL
    BY <1>6, SoundFacts DEF OneMore
  <2> QED
    BY <1>2, <1>4, <2>1 DEF Grows, StartsWith
<1> QED
  BY <1>5, <1>6 DEF MakesOne

LEMMA OneIsTree ==
    ASSUME IsFiniteSet(Items), NEW h, NEW k, NEW r, Sound(h, k, r),
           NEW res, MakesOne(h, k, r, res)
    PROVE  Makes(h, k, r, res)
<1>1. NULL \notin Items
  BY SoundFacts
<1> QED
  BY <1>1, FirstMade DEF Makes, StartsWith

(* An array that is filled: all of it is made or nothing.                   *)
THEOREM ArrayMade ==
    ASSUME IsFiniteSet(Items), NEW h, NEW k, NEW r, Sound(h, k, r),
           NEW type \in Kinds \ {"Freed"}, NEW count \in Nat
    PROVE  Makes(h, k, r, CreateArrayOf(h, type, count))
<1> DEFINE array == Create(h, "Array")
           f0    == [h |-> array.h, item |-> array.item, last |-> NULL]
           S     == {f \in Fills : Filling(h, k, r, f)}
           step  == [f \in S |-> IF f.item = NULL THEN f ELSE FillStep(f, type)]
           D(g, n) == IF n = 0 THEN f0
                      ELSE LET f == g[n - 1] IN IF f.item = NULL THEN f ELSE FillStep(f, type)
           Follows(g) == g = [n \in Nat |-> D(g, n)]
           fill  == CHOOSE g : Follows(g)
<1>1. NULL \notin Items
  BY SoundFacts
<1>2. f0 \in S
  <2>1. MakesOne(h, k, r, array)
    BY ItemCreated DEF Kinds
  <2> HIDE DEF array
  <2>2. \/ array.item = NULL /\ array.h.at = h.at /\ Sound(array.h, k, r)
        \/ /\ array.item \in Items \ Live(h) /\ k[array.item] = <<>>
           /\ Extends(h, k, r, array.h, k, {array.item})
    <3>1. StartsWith(h, k, r, array)
      BY <2>1, FirstMade
    <3> QED
      BY <3>1 DEF StartsWith
  <2> DEFINE x  == array.item
             h1 == array.h
  <2>3. f0.h = h1 /\ f0.item = x /\ f0.last = NULL
    OBVIOUS
  <2>4. CASE x = NULL /\ h1.at = h.at /\ Sound(h1, k, r)
    <3>1. h1 \in Heaps(Kinds, AllNames)
      BY <2>4, SoundFacts
    <3>2. f0 \in Fills
      BY <2>4, <3>1 DEF Fills, Pointers
    <3> QED
      BY <2>3, <2>4, <3>2 DEF Filling
  <2>5. CASE x \in Items /\ k[x] = <<>> /\ Extends(h, k, r, h1, k, {x})
    <3> DEFINE R == r \cup {x}
    <3>1. Sound(h1, k, R)
      BY <2>5 DEF Extends
    <3> HIDE DEF R
    <3>2. h1 \in Heaps(Kinds, AllNames)
      BY <3>1, SoundFacts
    <3>3. f0 \in Fills
      BY <2>5, <3>2 DEF Fills, Pointers
    <3>4. f0.last = LastChild(k[x])
      BY <2>3, <2>5 DEF LastChild
    <3> HIDE DEF f0, x, h1
    <3>5. Filling(h, k, r, f0)
      BY <1>1, <2>3, <2>5, <3>4 DEF Filling
    <3> QED
      BY <3>3, <3>5
  <2> QED
    BY <2>2, <2>4, <2>5
<1> HIDE DEF f0
<1>3. ASSUME NEW f \in S, f.item # NULL PROVE FillStep(f, type) \in S
  BY <1>3, FillGoesOn
<1>4. step \in [S -> S]
  <2> HIDE DEF S
  <2> QED
    BY <1>3
<1>5. Follows(fill)
  <2>1. PICK g : Iterates(g, S, f0, step)
    <3> HIDE DEF S, step, D, Follows, fill
    <3> QED
      BY <1>2, <1>4, SomeIterates
  <2>2. g \in [Nat -> S] /\ g[0] = f0 /\ \A n \in Nat : g[n + 1] = step[g[n]]
    <3> HIDE DEF S, step, D, Follows, fill
    <3> QED
      BY <2>1 DEF Iterates
  <2>3. ASSUME NEW n \in Nat PROVE g[n] = D(g, n)
    <3>1. CASE n = 0
      BY <2>2, <3>1
    <3>2. CASE n # 0
      <4>1. n - 1 \in Nat /\ (n - 1) + 1 = n
        BY <3>2
      <4>2. g[(n - 1) + 1] = step[g[n - 1]] /\ g[n - 1] \in S
        BY <2>2, <4>1
      <4> HIDE DEF S
      <4> QED
        BY <3>2, <4>1, <4>2
    <3> QED
      BY <3>1, <3>2
  <2>4. g = [n \in Nat |-> g[n]]
    <3> HIDE DEF S, step, D, Follows, fill
    <3> QED
      BY <2>2
  <2>5. Follows(g)
    <3> HIDE DEF D
    <3> QED
      BY <2>3, <2>4
  <2> HIDE DEF Follows
  <2> QED
    BY <2>5
<1> HIDE DEF fill
<1>6. fill[0] = f0 /\ \A n \in Nat : fill[n] \in S => fill[n + 1] = step[fill[n]]
  <2>1. \A n \in Nat : fill[n] = D(fill, n)
    BY <1>5
  <2>2. fill[0] = f0
    BY <2>1
  <2>3. ASSUME NEW n \in Nat, fill[n] \in S PROVE fill[n + 1] = step[fill[n]]
    <3>1. n + 1 \in Nat /\ n + 1 # 0 /\ (n + 1) - 1 = n
      OBVIOUS
    <3>2. fill[n + 1] = D(fill, n + 1)
      BY <2>1, <3>1
    <3> HIDE DEF S
    <3> QED
      BY <2>3, <3>1, <3>2
  <2> QED
    BY <2>2, <2>3
<1>7. fill[count] \in S
  <2> HIDE DEF S, step, D, Follows
  <2> QED
    BY <1>2, <1>4, <1>6, RunsIn
<1>8. CreateArrayOf(h, type, count) = Result(fill[count].h, fill[count].item)
  BY DEF CreateArrayOf, fill, f0
<1> DEFINE f   == fill[count]
           res == CreateArrayOf(h, type, count)
<1>9. Filling(h, k, r, f)
  BY <1>7
<1>10. res.h = f.h /\ res.item = f.item
  BY <1>8 DEF Result
<1> HIDE DEF f, res
<1>11. Makes(h, k, r, res)
  BY <1>9, <1>10 DEF Filling, Makes
<1> QED
  BY <1>11 DEF res

-----------------------------------------------------------------------------
(* cJSON_Duplicate under way: the items that are made and not linked yet are   *)
(* those of the calls, or the one that is returned.                          *)
Call == [item : Items, child : Pointers, last : Pointers]

Copies == [h : Heaps(Kinds, AllNames), item : Pointers, failed : BOOLEAN,
           callers : Seq(Call)]

NewRoots(c) == ItemsOf(c.callers) \cup ({c.item} \ {NULL})

(* Each call is about a child of what is copied; all but the last are waiting. *)
OnTheWay(h0, s) ==
    \A n \in 1..Len(s) : /\ s[n].child \in Live(h0) \cup {NULL}
                         /\ n < Len(s) => s[n].child # NULL

Lasts(s, k) == \A n \in 1..Len(s) : s[n].last = LastChild(k[s[n].item])

Copying(h0, k0, r0, c) ==
    /\ c.item # NULL => c.callers = <<>>
    /\ c.failed => c.item = NULL
    /\ EachOnce(c.callers)
    /\ OnTheWay(h0, c.callers)
    /\ \E k : /\ Extends(h0, k0, r0, c.h, k, NewRoots(c))
              /\ c.failed \/ Lasts(c.callers, k)

CopyLeft(c) ==
    IF c.failed THEN Len(c.callers)
    ELSE 2 * Cardinality(Items \ Live(c.h)) + Len(c.callers) + 1

CopiesOn(h0, k0, r0, c, c2) ==
    c2 \in Copies /\ Copying(h0, k0, r0, c2) /\ CopyLeft(c2) < CopyLeft(c)

LEMMA CopyFacts ==
    ASSUME NEW c \in Copies
    PROVE  /\ c.h \in Heaps(Kinds, AllNames) /\ c.item \in Pointers
           /\ c.failed \in BOOLEAN /\ c.callers \in Seq(Call)
BY DEF Copies

LEMMA CopyMadeOf ==
    ASSUME NEW h \in Heaps(Kinds, AllNames), NEW item \in Pointers,
           NEW failed \in BOOLEAN, NEW s \in Seq(Call)
    PROVE  [h |-> h, item |-> item, failed |-> failed, callers |-> s] \in Copies
BY DEF Copies

LEMMA ExtendsHeap ==
    ASSUME NEW h0, NEW k0, NEW r0, NEW h, NEW k, NEW R, Extends(h0, k0, r0, h, k, R)
    PROVE  /\ h \in Heaps(Kinds, AllNames) /\ k \in [Items -> Seq(Items)]
           /\ R \subseteq Live(h) /\ Live(h) \subseteq Items /\ NULL \notin Items
<1> DEFINE r == r0 \cup R
<1>1. Sound(h, k, r) /\ R \subseteq r
  BY DEF Extends
<1> HIDE DEF r
<1> QED
  BY <1>1, SoundFacts

(* A failed call gives up what it has made. *)
LEMMA CopyFails ==
    ASSUME IsFiniteSet(Items), NEW h0, NEW k0, NEW r0, Sound(h0, k0, r0),
           NEW c \in Copies, Copying(h0, k0, r0, c), c.callers # <<>>, c.failed
    PROVE  CopiesOn(h0, k0, r0, c, CopyStep(c))
<1> DEFINE s    == c.callers
           x    == LastOf(s).item
           rest == Front(s)
           R    == NewRoots(c)
           h2   == cJSON_Delete(c.h, x)
           c2   == [h |-> h2, item |-> c.item, failed |-> c.failed, callers |-> rest]
<1>1. /\ c.h \in Heaps(Kinds, AllNames) /\ c.item = NULL /\ s \in Seq(Call)
      /\ s # <<>> /\ EachOnce(s) /\ OnTheWay(h0, s)
  BY CopyFacts DEF Copying
<1>2. CopyStep(c) = c2
  <2>1. c = [h |-> c.h, item |-> c.item, failed |-> c.failed, callers |-> c.callers]
    BY DEF Copies
  <2>2. CopyStep(c) = [c EXCEPT !.h = cJSON_Delete(@, x), !.callers = Front(@)]
    BY DEF CopyStep
  <2> QED
    BY <2>1, <2>2
<1>3. PICK k : Extends(h0, k0, r0, c.h, k, R)
  BY DEF Copying
<1>4. /\ rest \in Seq(Call) /\ Len(rest) = Len(s) - 1 /\ Len(s) \in Nat
      /\ \A n \in 1..(Len(s) - 1) : rest[n] = s[n]
  BY <1>1, Popped
<1>5. ItemsOf(rest) = ItemsOf(s) \ {x} /\ x \in ItemsOf(s) /\ EachOnce(rest)
  BY <1>1, CallerPopped
<1>6. R = ItemsOf(s)
  BY <1>1 DEF NewRoots
<1> DEFINE k2 == Pruned(k, Tree(k, x))
<1>7. Extends(h0, k0, r0, h2, k2, R \ {x})
  <2> DEFINE h == c.h
  <2>1. Extends(h0, k0, r0, h, k, R) /\ x \in R
    BY <1>3, <1>5, <1>6
  <2> HIDE DEF h, x, R
  <2> QED
    BY <2>1, ExtendsDelete DEF h
<1> HIDE DEF rest, h2, k2, R
<1>8. NewRoots(c2) = R \ {x}
  BY <1>1, <1>5, <1>6 DEF NewRoots
<1>9. h2 \in Heaps(Kinds, AllNames)
  BY <1>7, ExtendsHeap
<1>10. c2 \in Copies
  BY <1>1, <1>4, <1>9, CopyMadeOf DEF Pointers
<1>11. OnTheWay(h0, rest)
  BY <1>1, <1>4 DEF OnTheWay
<1>12. /\ c2.h = h2 /\ c2.item = NULL /\ c2.failed = TRUE /\ c2.callers = rest
  BY <1>1
<1> HIDE DEF c2
<1>13. Extends(h0, k0, r0, c2.h, k2, NewRoots(c2))
  BY <1>7, <1>8, <1>12
<1>14. Copying(h0, k0, r0, c2)
  BY <1>5, <1>11, <1>12, <1>13 DEF Copying
<1>15. CopyLeft(c2) < CopyLeft(c)
  BY <1>4, <1>12 DEF CopyLeft
<1> QED
  BY <1>2, <1>10, <1>14, <1>15 DEF CopiesOn

-----------------------------------------------------------------------------
(* The pointers of the items in use lead to items in use. *)
PointersLive(h) ==
    \A j \in Live(h) : h.at[j].next \in Live(h) \cup {NULL} /\ h.at[j].child \in Live(h) \cup {NULL}

LEMMA CopyFailed ==
    ASSUME NEW c \in Copies, NEW h2 \in Heaps(Kinds, AllNames)
    PROVE  LET c2 == [c EXCEPT !.h = h2, !.failed = TRUE]
           IN  /\ c2 \in Copies /\ c2.h = h2 /\ c2.item = c.item
               /\ c2.failed = TRUE /\ c2.callers = c.callers
BY DEF Copies

LEMMA CopyChanged ==
    ASSUME NEW c \in Copies, NEW h2 \in Heaps(Kinds, AllNames), NEW s2 \in Seq(Call)
    PROVE  LET c2 == [c EXCEPT !.h = h2, !.callers = s2]
           IN  /\ c2 \in Copies /\ c2.h = h2 /\ c2.item = c.item
               /\ c2.failed = c.failed /\ c2.callers = s2
BY DEF Copies

LEMMA CopyGoesDown ==
    ASSUME IsFiniteSet(Items), NEW h0, NEW k0, NEW r0, Sound(h0, k0, r0),
           PointersLive(h0), NEW c \in Copies, Copying(h0, k0, r0, c),
           c.callers # <<>>, ~c.failed, LastOf(c.callers).child # NULL
    PROVE  CopiesOn(h0, k0, r0, c, CopyStep(c))
<1> DEFINE s    == c.callers
           h    == c.h
           i    == LastOf(s).child
           R    == NewRoots(c)
           copy == Copied(h, i)
           x    == copy.item
           h2   == copy.h
           down == Calls(x, h.at[i].child)
           t    == Append(s, down)
           none == [c EXCEPT !.h = h2, !.failed = TRUE]
           more == [c EXCEPT !.h = h2, !.callers = t]
<1>1. /\ h \in Heaps(Kinds, AllNames) /\ c.item = NULL /\ s \in Seq(Call)
      /\ s # <<>> /\ EachOnce(s) /\ OnTheWay(h0, s) /\ c.failed = FALSE
  BY CopyFacts DEF Copying
<1>2. CopyStep(c) = IF x = NULL THEN none ELSE more
  <2>1. CopyStep(c) = CopyChild(c, LastOf(s))
    BY DEF CopyStep
  <2>2. CopyChild(c, LastOf(s)) = IF x = NULL THEN none ELSE more
    BY DEF CopyChild
  <2> QED
    BY <2>1, <2>2
<1>3. PICK k : Extends(h0, k0, r0, h, k, R) /\ Lasts(s, k)
  BY <1>1 DEF Copying
<1>4. /\ Len(s) \in Nat /\ Len(s) >= 1 /\ LastOf(s) = s[Len(s)]
  BY <1>1, Popped
<1>5. i \in Live(h0) /\ i \in Live(h) /\ h.at[i] = h0.at[i]
  <2>1. Len(s) \in 1..Len(s)
    BY <1>4
  <2>2. i \in Live(h0) \cup {NULL} /\ i # NULL
    BY <1>1, <1>4, <2>1 DEF OnTheWay
  <2> QED
    BY <1>3, <2>2 DEF Extends
<1>6. h.at[i].child \in Live(h0) \cup {NULL}
  BY <1>5 DEF PointersLive
<1> DEFINE r == r0 \cup R
<1>7. MakesOne(h, k, r, copy)
  <2>1. Sound(h, k, r)
    BY <1>3 DEF Extends
  <2> HIDE DEF h, i, r, R
  <2> QED
    BY <1>5, <2>1, CopyMade
<1>8. Grows(h0, k0, r0, h, k, R, copy)
  <2> HIDE DEF h, R, copy
  <2> QED
    BY <1>3, <1>7, ExtendsOneMore
<1>9. /\ Live(h) \subseteq Items /\ R \subseteq Live(h) /\ NULL \notin Items
  BY <1>3, ExtendsHeap
<1>10. R = ItemsOf(s)
  BY <1>1 DEF NewRoots
<1>11. Live(h0) \subseteq Items
  BY SoundFacts
<1> HIDE DEF copy, R
<1>12. CASE x = NULL
  <2>1. Extends(h0, k0, r0, h2, k, R)
    BY <1>8, <1>9, <1>12 DEF Grows
  <2>2. h2 \in Heaps(Kinds, AllNames)
    BY <2>1, ExtendsHeap
  <2>3. none \in Copies
    BY <2>2, CopyFailed
  <2>4. none.h = h2 /\ none.item = NULL /\ none.failed = TRUE /\ none.callers = s
    <3> HIDE DEF h2
    <3> QED
      BY <1>1, <2>2, CopyFailed
  <2> HIDE DEF none
  <2>5. NewRoots(none) = R
    BY <1>10, <2>4 DEF NewRoots
  <2>6. Copying(h0, k0, r0, none)
    BY <1>1, <2>1, <2>4, <2>5 DEF Copying
  <2>7. CopyLeft(none) < CopyLeft(c)
    <3>1. Cardinality(Items \ Live(h)) \in Nat
      BY FS_Subset, FS_CardinalityType
    <3> QED
      BY <1>1, <1>4, <2>4, <3>1 DEF CopyLeft
  <2> QED
    BY <1>2, <1>12, <2>3, <2>6, <2>7 DEF CopiesOn
<1>13. CASE x # NULL
  <2>1. /\ x \in Items /\ x \notin Live(h) /\ k[x] = <<>>
        /\ Extends(h0, k0, r0, h2, k, R \cup {x}) /\ Live(h2) = Live(h) \cup {x}
    BY <1>8, <1>13 DEF Grows
  <2>2. h2 \in Heaps(Kinds, AllNames)
    BY <2>1, ExtendsHeap
  <2>3. down \in Call /\ down.item = x /\ down.child = h.at[i].child /\ down.last = NULL
    BY <1>6, <1>11, <2>1 DEF Calls, Call, Pointers
  <2>4. x \notin ItemsOf(s)
    BY <1>9, <1>10, <2>1
  <2> HIDE DEF down, x, h2, i
  <2>5. /\ t \in Seq(Call) /\ Len(t) = Len(s) + 1
        /\ \A n \in 1..(Len(s) + 1) : t[n] = IF n = Len(s) + 1 THEN down ELSE s[n]
    BY <1>1, <2>3, Pushed
  <2>6. ItemsOf(t) = ItemsOf(s) \cup {x} /\ EachOnce(t)
    BY <1>1, <2>3, <2>4, CallerPushed
  <2> HIDE DEF t
  <2>7. more \in Copies
    BY <2>2, <2>5, CopyChanged
  <2>8. more.h = h2 /\ more.item = NULL /\ more.failed = FALSE /\ more.callers = t
    <3>1. t \in Seq(Call) /\ c.item = NULL /\ c.failed = FALSE
      BY <1>1, <2>5
    <3> HIDE DEF s
    <3>2. more.h = h2 /\ more.item = c.item /\ more.callers = t
      BY <2>2, <3>1 DEF Copies
    <3>3. more.failed = c.failed
      BY <2>2, <3>1 DEF Copies
    <3> QED
      BY <3>1, <3>2, <3>3
  <2> HIDE DEF more
  <2>9. NewRoots(more) = R \cup {x}
    BY <1>10, <2>6, <2>8 DEF NewRoots
  <2>10. OnTheWay(h0, t)
    <3>1. i # NULL /\ s[Len(s)].child = i
      BY <1>4 DEF i
    <3>2. \A n \in 1..Len(s) : s[n].child \in Live(h0) \cup {NULL} /\ s[n].child # NULL
      BY <1>1, <1>4, <3>1 DEF OnTheWay
    <3>3. \A n \in 1..Len(t) : n \in 1..Len(s) \/ n = Len(s) + 1
      BY <1>4, <2>5
    <3> QED
      BY <1>4, <1>6, <2>3, <2>5, <3>2, <3>3 DEF OnTheWay
  <2>11. Lasts(t, k)
    <3>1. \A n \in 1..Len(t) : n \in 1..Len(s) \/ n = Len(s) + 1
      BY <1>4, <2>5
    <3>2. LastChild(k[x]) = NULL
      BY <2>1 DEF LastChild
    <3>3. \A n \in 1..Len(s) : s[n].last = LastChild(k[s[n].item])
      BY <1>3 DEF Lasts
    <3> HIDE DEF s
    <3>4. \A n \in 1..Len(s) : n # Len(s) + 1 /\ t[n] = s[n]
      BY <1>4, <2>5
    <3>5. t[Len(s) + 1] = down
      BY <1>4, <2>5
    <3> QED
      BY <2>3, <3>1, <3>2, <3>3, <3>4, <3>5 DEF Lasts
  <2>12. Copying(h0, k0, r0, more)
    <3>1. Extends(h0, k0, r0, more.h, k, NewRoots(more))
      BY <2>1, <2>8, <2>9
    <3> QED
      BY <2>6, <2>8, <2>10, <2>11, <3>1 DEF Copying
  <2>13. CopyLeft(more) < CopyLeft(c)
    <3> DEFINE F  == Items \ Live(h)
               F2 == Items \ Live(h2)
    <3>1. F2 = F \ {x} /\ x \in F /\ IsFiniteSet(F)
      BY <2>1, FS_Subset
    <3> HIDE DEF F, F2
    <3>2. Cardinality(F2) = Cardinality(F) - 1 /\ Cardinality(F) \in Nat
      BY <3>1, FS_RemoveElement, FS_CardinalityType
    <3>3. CopyLeft(more) = 2 * Cardinality(F2) + Len(t) + 1
      BY <2>8 DEF CopyLeft, F2
    <3>4. CopyLeft(c) = 2 * Cardinality(F) + Len(s) + 1
      BY <1>1 DEF CopyLeft, F
    <3> QED
      BY <1>4, <2>5, <3>2, <3>3, <3>4
  <2> QED
    BY <1>2, <1>13, <2>7, <2>12, <2>13 DEF CopiesOn, x
<1> QED
  BY <1>12, <1>13

-----------------------------------------------------------------------------
(* The first call returns what it has made. *)
LEMMA CopyDone ==
    ASSUME IsFiniteSet(Items), NEW h0, NEW k0, NEW r0, Sound(h0, k0, r0),
           NEW c \in Copies, Copying(h0, k0, r0, c), c.callers # <<>>, ~c.failed,
           LastOf(c.callers).child = NULL, Front(c.callers) = <<>>
    PROVE  CopiesOn(h0, k0, r0, c, CopyStep(c))
<1> DEFINE s    == c.callers
           x    == LastOf(s).item
           rest == Front(s)
           R    == NewRoots(c)
           c2   == [c EXCEPT !.item = x, !.callers = rest]
<1>1. /\ c.h \in Heaps(Kinds, AllNames) /\ c.item = NULL /\ s \in Seq(Call)
      /\ s # <<>> /\ EachOnce(s) /\ c.failed = FALSE
  BY CopyFacts DEF Copying
<1>2. CopyStep(c) = c2
  <2>1. CopyStep(c) = ReturnCopy(c, LastOf(s))
    BY DEF CopyStep
  <2>2. ReturnCopy(c, LastOf(s)) = c2
    BY DEF ReturnCopy
  <2> QED
    BY <2>1, <2>2
<1>3. PICK k : Extends(h0, k0, r0, c.h, k, R)
  BY DEF Copying
<1>4. /\ Len(rest) = Len(s) - 1 /\ Len(s) \in Nat /\ LastOf(s) \in Call
      /\ rest \in Seq(Call)
  BY <1>1, Popped
<1>5. ItemsOf(rest) = ItemsOf(s) \ {x} /\ x \in ItemsOf(s)
  BY <1>1, CallerPopped
<1>6. R = ItemsOf(s) /\ NULL \notin Items /\ x \in Items
  BY <1>1, <1>4, SoundFacts DEF NewRoots, Call
<1>7. rest = <<>> /\ Len(rest) = 0 /\ ItemsOf(rest) = {}
  BY DEF ItemsOf
<1> HIDE DEF x, rest
<1>8. /\ c2 \in Copies /\ c2.h = c.h /\ c2.item = x /\ c2.callers = rest
      /\ c2.failed = c.failed
  <2>1. x \in Pointers
    BY <1>6 DEF Pointers
  <2> QED
    BY <1>4, <2>1 DEF Copies
<1> HIDE DEF c2, R
<1>9. NewRoots(c2) = R
  BY <1>5, <1>6, <1>7, <1>8 DEF NewRoots
<1>10. Copying(h0, k0, r0, c2)
  <2>1. EachOnce(rest) /\ OnTheWay(h0, rest) /\ Lasts(rest, k)
    BY <1>7 DEF EachOnce, OnTheWay, Lasts
  <2>2. Extends(h0, k0, r0, c2.h, k, NewRoots(c2))
    BY <1>3, <1>8, <1>9
  <2> QED
    BY <1>1, <1>7, <1>8, <2>1, <2>2 DEF Copying
<1>11. CopyLeft(c2) < CopyLeft(c)
  <2>1. Cardinality(Items \ Live(c.h)) \in Nat
    BY FS_Subset, FS_CardinalityType
  <2> QED
    BY <1>1, <1>4, <1>8, <2>1 DEF CopyLeft
<1> QED
  BY <1>2, <1>8, <1>10, <1>11 DEF CopiesOn

(* Another call links what it has made to what its caller makes.            *)
LEMMA CopyReturns ==
    ASSUME IsFiniteSet(Items), NEW h0, NEW k0, NEW r0, Sound(h0, k0, r0),
           PointersLive(h0), NEW c \in Copies, Copying(h0, k0, r0, c),
           c.callers # <<>>, ~c.failed, LastOf(c.callers).child = NULL,
           Front(c.callers) # <<>>
    PROVE  CopiesOn(h0, k0, r0, c, CopyStep(c))
<1> DEFINE s      == c.callers
           h      == c.h
           x      == LastOf(s).item
           rest   == Front(s)
           caller == LastOf(rest)
           p      == caller.item
           front  == Front(rest)
           R      == NewRoots(c)
           h2     == Behind(h, p, caller.last, x)
           e      == [item |-> p, last |-> x, child |-> h.at[caller.child].next]
           t      == Append(front, e)
           c2     == [c EXCEPT !.h = h2, !.callers = t]
<1>1. /\ h \in Heaps(Kinds, AllNames) /\ c.item = NULL /\ s \in Seq(Call)
      /\ s # <<>> /\ EachOnce(s) /\ OnTheWay(h0, s) /\ c.failed = FALSE
  BY CopyFacts DEF Copying
<1>2. CopyStep(c) = c2
  <2>1. CopyStep(c) = ReturnCopy(c, LastOf(s))
    BY DEF CopyStep
  <2>2. ReturnCopy(c, LastOf(s)) = c2
    BY DEF ReturnCopy
  <2> QED
    BY <2>1, <2>2
<1>3. PICK k : Extends(h0, k0, r0, h, k, R) /\ Lasts(s, k)
  BY <1>1 DEF Copying
<1>4. /\ Len(rest) = Len(s) - 1 /\ Len(s) \in Nat /\ rest \in Seq(Call)
      /\ LastOf(s) = s[Len(s)] /\ LastOf(s) \in Call
      /\ \A n \in 1..(Len(s) - 1) : rest[n] = s[n]
  BY <1>1, Popped
<1>5. /\ ItemsOf(rest) = ItemsOf(s) \ {x} /\ x \in ItemsOf(s) /\ EachOnce(rest)
  BY <1>1, CallerPopped
<1>6. /\ front \in Seq(Call) /\ Len(front) = Len(rest) - 1 /\ Len(rest) >= 1
      /\ caller \in Call /\ caller = rest[Len(rest)]
      /\ \A n \in 1..(Len(rest) - 1) : front[n] = rest[n]
  BY <1>4, Popped
<1>7. /\ ItemsOf(front) = ItemsOf(rest) \ {p} /\ p \in ItemsOf(rest) /\ EachOnce(front)
  BY <1>4, <1>5, CallerPopped
<1>8. R = ItemsOf(s) /\ NULL \notin Items /\ x \in Items /\ p \in Items
  BY <1>1, <1>4, <1>6, SoundFacts DEF NewRoots, Call
<1>9. p \in R /\ x \in R /\ p # x
  BY <1>5, <1>7, <1>8
<1>10. caller = s[Len(s) - 1] /\ Len(s) - 1 \in 1..Len(s) /\ Len(s) - 1 < Len(s)
  BY <1>4, <1>6
<1>11. caller.child \in Live(h0) /\ caller.last = LastChild(k[p])
  BY <1>1, <1>3, <1>10 DEF OnTheWay, Lasts
<1>12. h.at[caller.child].next \in Live(h0) \cup {NULL}
  <2>1. h.at[caller.child] = h0.at[caller.child]
    BY <1>3, <1>11 DEF Extends
  <2> QED
    BY <1>11, <2>1 DEF PointersLive
<1>13. Live(h0) \subseteq Items
  BY SoundFacts
<1>14. e \in Call /\ e.item = p /\ e.last = x /\ e.child = h.at[caller.child].next
  BY <1>8, <1>12, <1>13 DEF Call, Pointers
<1> HIDE DEF x, p, caller, front, rest, R, h, e
<1>15. h2 = Behind(h, p, LastChild(k[p]), x)
  BY <1>11
<1> HIDE DEF h2
<1>29. LinkedBehind(h0, k0, r0, h, k, R, p, x, h2)
  BY <1>3, <1>9, <1>15, LinksBehind
<1>16. PICK k2 : /\ Extends(h0, k0, r0, h2, k2, R \ {x}) /\ Live(h2) = Live(h)
                 /\ LastChild(k2[p]) = x /\ \A j \in Items : j # p => k2[j] = k[j]
  BY <1>29 DEF LinkedBehind
<1>17. h2 \in Heaps(Kinds, AllNames)
  BY <1>16, ExtendsHeap
<1>18. /\ t \in Seq(Call) /\ Len(t) = Len(front) + 1
       /\ \A n \in 1..(Len(front) + 1) : t[n] = IF n = Len(front) + 1 THEN e ELSE front[n]
  BY <1>6, <1>14, Pushed
<1>19. p \notin ItemsOf(front)
  BY <1>7
<1>20. ItemsOf(t) = ItemsOf(front) \cup {p} /\ EachOnce(t)
  BY <1>6, <1>7, <1>14, <1>19, CallerPushed
<1>21. ItemsOf(t) = R \ {x}
  BY <1>5, <1>7, <1>8, <1>20
<1> HIDE DEF t
<1>22. /\ c2 \in Copies /\ c2.h = h2 /\ c2.item = NULL /\ c2.callers = t
       /\ c2.failed = FALSE
  <2>1. c.item = NULL /\ c.failed = FALSE /\ t \in Seq(Call)
    BY <1>1, <1>18
  <2> HIDE DEF s
  <2>2. c2 \in Copies /\ c2.h = h2 /\ c2.item = c.item /\ c2.callers = t
    BY <1>17, <2>1 DEF Copies
  <2>3. c2.failed = c.failed
    BY <1>17, <2>1 DEF Copies
  <2> QED
    BY <2>1, <2>2, <2>3
<1> HIDE DEF c2
<1>23. NewRoots(c2) = R \ {x}
  BY <1>21, <1>22 DEF NewRoots
<1>24. Len(t) = Len(s) - 1 /\ \A n \in 1..Len(t) :
          \/ n = Len(t) /\ t[n] = e
          \/ n \in 1..Len(front) /\ n \in 1..Len(s) /\ n < Len(s) - 1 /\ t[n] = s[n] /\ t[n] = front[n]
  <2>1. Len(t) = Len(s) - 1 /\ Len(front) = Len(s) - 2
    BY <1>4, <1>6, <1>18
  <2>2. \A n \in 1..Len(front) : front[n] = s[n]
    BY <1>4, <1>6, <2>1
  <2> QED
    BY <1>4, <1>6, <1>18, <2>1, <2>2
<1>25. OnTheWay(h0, t)
  BY <1>1, <1>4, <1>12, <1>14, <1>24 DEF OnTheWay
<1>26. Lasts(t, k2)
  <2> SUFFICES ASSUME NEW n \in 1..Len(t) PROVE t[n].last = LastChild(k2[t[n].item])
    BY DEF Lasts
  <2>1. CASE t[n] = e
    BY <1>14, <1>16, <2>1
  <2>2. CASE n \in 1..Len(front) /\ n \in 1..Len(s) /\ t[n] = s[n] /\ t[n] = front[n]
    <3>1. t[n].item # p
      BY <1>19, <2>2 DEF ItemsOf
    <3>2. t[n].item \in Items
      <4>1. s[n] \in Call
        BY <1>1, <2>2, ElementOfSeq
      <4> QED
        BY <2>2, <4>1 DEF Call
    <3>3. t[n].last = LastChild(k[t[n].item])
      BY <1>3, <2>2 DEF Lasts
    <3> QED
      BY <1>16, <3>1, <3>2, <3>3
  <2> QED
    BY <1>24, <2>1, <2>2
<1>27. Copying(h0, k0, r0, c2)
  <2>1. Extends(h0, k0, r0, c2.h, k2, NewRoots(c2))
    BY <1>16, <1>22, <1>23
  <2> QED
    BY <1>20, <1>22, <1>25, <1>26, <2>1 DEF Copying
<1>28. CopyLeft(c2) < CopyLeft(c)
  <2>1. Cardinality(Items \ Live(h)) \in Nat
    BY FS_Subset, FS_CardinalityType
  <2>2. CopyLeft(c2) = 2 * Cardinality(Items \ Live(h)) + Len(t) + 1
    BY <1>16, <1>22 DEF CopyLeft
  <2>3. CopyLeft(c) = 2 * Cardinality(Items \ Live(h)) + Len(s) + 1
    BY <1>1 DEF CopyLeft, h
  <2> QED
    BY <1>4, <1>24, <2>1, <2>2, <2>3
<1> QED
  BY <1>2, <1>22, <1>27, <1>28 DEF CopiesOn

-----------------------------------------------------------------------------
LEMMA CopyGoesOn ==
    ASSUME IsFiniteSet(Items), NEW h, NEW k, NEW r, Sound(h, k, r), PointersLive(h),
           NEW c \in Copies, Copying(h, k, r, c), c.callers # <<>>
    PROVE  CopiesOn(h, k, r, c, CopyStep(c))
<1>1. CASE c.failed
  BY <1>1, CopyFails
<1>2. CASE ~c.failed /\ LastOf(c.callers).child # NULL
  BY <1>2, CopyGoesDown
<1>3. CASE ~c.failed /\ LastOf(c.callers).child = NULL /\ Front(c.callers) = <<>>
  BY <1>3, CopyDone
<1>4. CASE ~c.failed /\ LastOf(c.callers).child = NULL /\ Front(c.callers) # <<>>
  BY <1>4, CopyReturns
<1> QED
  BY <1>1, <1>2, <1>3, <1>4

LEMMA CopyLeftIsNat ==
    ASSUME IsFiniteSet(Items), NEW c \in Copies
    PROVE  CopyLeft(c) \in Nat
<1>1. Cardinality(Items \ Live(c.h)) \in Nat
  BY FS_Subset, FS_CardinalityType
<1>2. Len(c.callers) \in Nat
  BY CopyFacts, LenProperties
<1> QED
  BY <1>1, <1>2 DEF CopyLeft

(* The first call has made one item and turns to its children.              *)
LEMMA CopyStarts ==
    ASSUME IsFiniteSet(Items), NEW h, NEW k, NEW r, Sound(h, k, r),
           NEW h1, NEW x \in Items, k[x] = <<>>, Extends(h, k, r, h1, k, {x}),
           NEW child \in Live(h) \cup {NULL}
    PROVE  LET c0 == [h |-> h1, item |-> NULL, failed |-> FALSE,
                      callers |-> <<Calls(x, child)>>]
           IN  /\ c0 \in Copies /\ Copying(h, k, r, c0)
               /\ CopyLeft(c0) <= 2 * Cardinality(Items) + 2
<1> DEFINE e  == Calls(x, child)
           s  == <<e>>
           c0 == [h |-> h1, item |-> NULL, failed |-> FALSE, callers |-> s]
<1>1. NULL \notin Items /\ Live(h) \subseteq Items
  BY SoundFacts
<1>2. h1 \in Heaps(Kinds, AllNames)
  BY ExtendsHeap
<1>3. e \in Call /\ e.item = x /\ e.child = child /\ e.last = NULL
  BY <1>1 DEF Calls, Call, Pointers
<1> HIDE DEF e
<1>4. s \in Seq(Call) /\ Len(s) = 1 /\ s[1] = e /\ 1..Len(s) = {1}
  <2>1. s \in Seq(Call)
    BY <1>3
  <2>2. Len(s) = 1 /\ s[1] = e
    OBVIOUS
  <2>3. 1..1 = {1}
    OBVIOUS
  <2> QED
    BY <2>1, <2>2, <2>3
<1>5. c0 \in Copies
  BY <1>2, <1>4, CopyMadeOf DEF Pointers
<1>6. c0.h = h1 /\ c0.item = NULL /\ c0.failed = FALSE /\ c0.callers = s
  OBVIOUS
<1> HIDE DEF s
<1>7. s # <<>>
  BY <1>4, EmptySeq
<1>8. ItemsOf(s) = {x} /\ EachOnce(s)
  <2>1. ItemsOf(s) = {s[n].item : n \in {1}}
    BY <1>4 DEF ItemsOf
  <2>2. s[1].item = x
    BY <1>3, <1>4
  <2>3. ItemsOf(s) = {x}
    BY <2>1, <2>2
  <2>4. EachOnce(s)
    BY <1>4 DEF EachOnce
  <2> QED
    BY <2>3, <2>4
<1>9. OnTheWay(h, s)
  <2> SUFFICES ASSUME NEW n \in 1..Len(s)
               PROVE  /\ s[n].child \in Live(h) \cup {NULL}
                      /\ n < Len(s) => s[n].child # NULL
    BY DEF OnTheWay
  <2>1. n = 1
    BY <1>4
  <2> QED
    BY <1>3, <1>4, <2>1
<1>10. Lasts(s, k)
  <2>1. LastChild(k[x]) = NULL
    BY DEF LastChild
  <2> QED
    BY <1>3, <1>4, <2>1 DEF Lasts
<1> HIDE DEF c0
<1>11. NewRoots(c0) = {x}
  BY <1>6, <1>8 DEF NewRoots
<1>12. Copying(h, k, r, c0)
  <2>1. Extends(h, k, r, c0.h, k, NewRoots(c0))
    BY <1>6, <1>11
  <2> QED
    BY <1>6, <1>8, <1>9, <1>10, <2>1 DEF Copying
<1>13. CopyLeft(c0) <= 2 * Cardinality(Items) + 2
  <2> DEFINE F == Items \ Live(h1)
  <2>1. F \subseteq Items
    OBVIOUS
  <2> HIDE DEF F
  <2>2. Cardinality(F) <= Cardinality(Items) /\ Cardinality(F) \in Nat
        /\ Cardinality(Items) \in Nat
    BY <2>1, FS_Subset, FS_CardinalityType
  <2>3. CopyLeft(c0) = 2 * Cardinality(F) + Len(s) + 1
    BY <1>6 DEF CopyLeft, F
  <2> QED
    BY <1>4, <2>2, <2>3
<1> QED
  BY <1>5, <1>12, <1>13 DEF c0, s, e

(* cJSON_Duplicate makes a whole new tree or nothing: what was copied before   *)
(* the memory ran out is given back.                                        *)
THEOREM DuplicateMade ==
    ASSUME IsFiniteSet(Items), NEW h, NEW k, NEW r, Sound(h, k, r), PointersLive(h),
           NEW i \in Live(h), NEW recurse \in BOOLEAN
    PROVE  Makes(h, k, r, cJSON_Duplicate(h, i, recurse))
<1> DEFINE copy == Copied(h, i)
           c0    == [h |-> copy.h, item |-> NULL, failed |-> FALSE,
                     callers |-> <<Calls(copy.item, h.at[i].child)>>]
           S     == {c \in Copies : Copying(h, k, r, c)}
           step  == [c \in S |-> IF c.callers = <<>> THEN c ELSE CopyStep(c)]
           left  == [c \in S |-> CopyLeft(c)]
           Done  == {c \in S : c.callers = <<>>}
           D(g, n) == IF n = 0 THEN c0
                      ELSE LET c == g[n - 1] IN IF c.callers = <<>> THEN c ELSE CopyStep(c)
           Follows(g) == g = [n \in Nat |-> D(g, n)]
           run   == CHOOSE g : Follows(g)
           N     == 2 * Cardinality(DOMAIN h.at) + 2
           res   == cJSON_Duplicate(h, i, recurse)
<1>1. res = IF copy.item = NULL \/ ~recurse THEN copy
            ELSE Result(run[N].h, run[N].item)
  BY DEF cJSON_Duplicate
<1>2. MakesOne(h, k, r, copy)
  BY CopyMade
<1>3. Makes(h, k, r, copy)
  <2> HIDE DEF copy
  <2> QED
    BY <1>2, OneIsTree
<1> SUFFICES ASSUME copy.item # NULL, recurse
             PROVE  Makes(h, k, r, Result(run[N].h, run[N].item))
  BY <1>1, <1>3
<1>4. DOMAIN h.at = Items
  BY SoundFacts DEF Heaps
<1>5. c0 \in S /\ CopyLeft(c0) <= 2 * Cardinality(Items) + 2
  <2> DEFINE x     == copy.item
             h1    == copy.h
             child == h.at[i].child
  <2>1. StartsWith(h, k, r, copy)
    <3> HIDE DEF copy
    <3> QED
      BY <1>2, FirstMade
  <2>2. x \in Items /\ k[x] = <<>> /\ Extends(h, k, r, h1, k, {x})
    BY <2>1 DEF StartsWith
  <2>3. child \in Live(h) \cup {NULL}
    BY DEF PointersLive
  <2>4. c0 = [h |-> h1, item |-> NULL, failed |-> FALSE, callers |-> <<Calls(x, child)>>]
    OBVIOUS
  <2> HIDE DEF x, h1, child
  <2> QED
    BY <2>2, <2>3, <2>4, CopyStarts
<1> HIDE DEF c0, copy
<1>6. ASSUME NEW c \in S, c.callers # <<>>
      PROVE  CopyStep(c) \in S /\ CopyLeft(CopyStep(c)) < CopyLeft(c)
  BY <1>6, CopyGoesOn DEF CopiesOn
<1>7. \A c \in S : CopyLeft(c) \in Nat
  BY CopyLeftIsNat
<1>8. step \in [S -> S] /\ left \in [S -> Nat] /\ Done \in SUBSET S
  <2> HIDE DEF S
  <2> QED
    BY <1>6, <1>7
<1>9. /\ \A c \in Done : step[c] = c
      /\ \A c \in S \ Done : left[step[c]] < left[c]
  <2> HIDE DEF S
  <2>1. ASSUME NEW c \in S \ Done PROVE left[step[c]] < left[c]
    <3>1. step[c] = CopyStep(c) /\ CopyStep(c) \in S /\ CopyLeft(CopyStep(c)) < CopyLeft(c)
      BY <1>6
    <3>2. left[step[c]] = CopyLeft(CopyStep(c)) /\ left[c] = CopyLeft(c)
      BY <3>1
    <3> QED
      BY <3>1, <3>2
  <2> QED
    BY <2>1
<1>10. Follows(run)
  <2>1. PICK g : Iterates(g, S, c0, step)
    <3> HIDE DEF S, step, left, Done, D, Follows, run, N, res
    <3> QED
      BY <1>5, <1>8, SomeIterates
  <2>2. g \in [Nat -> S] /\ g[0] = c0 /\ \A n \in Nat : g[n + 1] = step[g[n]]
    <3> HIDE DEF S, step, left, Done, D, Follows, run, N, res
    <3> QED
      BY <2>1 DEF Iterates
  <2>3. ASSUME NEW n \in Nat PROVE g[n] = D(g, n)
    <3>1. CASE n = 0
      BY <2>2, <3>1
    <3>2. CASE n # 0
      <4>1. n - 1 \in Nat /\ (n - 1) + 1 = n
        BY <3>2
      <4>2. g[(n - 1) + 1] = step[g[n - 1]] /\ g[n - 1] \in S
        BY <2>2, <4>1
      <4> HIDE DEF S
      <4> QED
        BY <3>2, <4>1, <4>2
    <3> QED
      BY <3>1, <3>2
  <2>4. g = [n \in Nat |-> g[n]]
    <3> HIDE DEF S, step, left, Done, D, Follows, run, N, res
    <3> QED
      BY <2>2
  <2>5. Follows(g)
    <3> HIDE DEF D
    <3> QED
      BY <2>3, <2>4
  <2> HIDE DEF Follows
  <2> QED
    BY <2>5
<1> HIDE DEF run
<1>11. run[0] = c0 /\ \A n \in Nat : run[n] \in S => run[n + 1] = step[run[n]]
  <2>1. \A n \in Nat : run[n] = D(run, n)
    BY <1>10
  <2>2. run[0] = c0
    BY <2>1
  <2>3. ASSUME NEW n \in Nat, run[n] \in S PROVE run[n + 1] = step[run[n]]
    <3>1. n + 1 \in Nat /\ n + 1 # 0 /\ (n + 1) - 1 = n
      OBVIOUS
    <3>2. run[n + 1] = D(run, n + 1)
      BY <2>1, <3>1
    <3> HIDE DEF S
    <3> QED
      BY <2>3, <3>1, <3>2
  <2> QED
    BY <2>2, <2>3
<1>12. N \in Nat /\ left[c0] <= N
  <2>1. Cardinality(Items) \in Nat
    BY FS_CardinalityType
  <2>2. left[c0] = CopyLeft(c0)
    <3> HIDE DEF S
    <3> QED
      BY <1>5
  <2> HIDE DEF S, left
  <2> QED
    BY <1>4, <1>5, <2>1, <2>2
<1>13. run[N] \in Done
  <2> HIDE DEF S, step, left, Done, N
  <2> QED
    BY <1>5, <1>8, <1>9, <1>11, <1>12, Runs
<1> DEFINE c == run[N]
           x == c.item
           h2 == c.h
<1>14. Copying(h, k, r, c) /\ c.callers = <<>>
  BY <1>13
<1> HIDE DEF c
<1>15. PICK k2 : Extends(h, k, r, h2, k2, NewRoots(c))
  BY <1>14 DEF Copying
<1>16. NewRoots(c) = {x} \ {NULL}
  <2>1. ItemsOf(c.callers) = {}
    BY <1>14 DEF ItemsOf
  <2> QED
    BY <2>1 DEF NewRoots
<1> HIDE DEF x, h2
<1>17. CASE x = NULL
  <2>1. Extends(h, k, r, h2, k2, {})
    BY <1>15, <1>16, <1>17
  <2>2. h2.at = h.at /\ Sound(h2, k, r)
    BY <2>1, NothingNew
  <2>3. Makes(h, k, r, Result(h2, x))
    BY <1>17, <2>2 DEF Makes, Result
  <2> QED
    BY <2>3 DEF h2, x, c
<1>18. CASE x # NULL
  <2>1. Extends(h, k, r, h2, k2, {x})
    <3>1. NewRoots(c) = {x}
      BY <1>16, <1>18
    <3> QED
      BY <1>15, <3>1
  <2>2. Makes(h, k, r, Result(h2, x))
    BY <1>18, <2>1 DEF Makes, Result
  <2> QED
    BY <2>2 DEF h2, x, c
<1> QED
  BY <1>17, <1>18
=============================================================================
