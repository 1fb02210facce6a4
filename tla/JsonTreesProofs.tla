-------------------------- MODULE JsonTreesProofs ---------------------------
(***************************************************************************)
(* What no program can break that calls the functions of cJSON as JsonTrees   *)
(* does: the items stay a forest, linked in both directions and counted, and  *)
(* each call does to it what ItemForest says.                                *)
(***************************************************************************)
EXTENDS JsonItemsProofs, JsonTrees

-----------------------------------------------------------------------------
(* What the references share: f gives of each the item whose children it has. *)
Lending(h, f) ==
    /\ f \in [Items -> Pointers]
    /\ \A j \in Refs(h) : /\ f[j] \in Live(h) \ Refs(h)
                          /\ h.at[j].child = h.at[f[j]].child

(* Of an item that is no reference nothing is said. *)
Forgot(h, f) == [j \in Items |-> IF h.at[j].isRef THEN f[j] ELSE NULL]

LEMMA SoundSame ==
    ASSUME NEW h, NEW k, NEW r, Sound(h, k, r),
           NEW h2 \in Heaps(Kinds, AllNames), h2.at = h.at, h2.live = h.live
    PROVE  Sound(h2, k, r) /\ Live(h2) = Live(h) /\ Refs(h2) = Refs(h)
<1>1. Nexts(h2) = Nexts(h) /\ Prevs(h2) = Prevs(h) /\ Firsts(h2) = Firsts(h)
  BY DEF Nexts, Prevs, Firsts
<1>2. Refs(h2) = Refs(h) /\ Live(h2) = Live(h)
  BY DEF Refs, Live
<1>3. Shows(h2, k)
  BY <1>1, <1>2 DEF Sound, Shows
<1>4. Counted(h2)
  BY DEF Sound, Counted
<1> QED
  BY <1>2, <1>3, <1>4 DEF Sound

LEMMA RefsLive ==
    ASSUME NEW h, NEW k, NEW r, Sound(h, k, r)
    PROVE  Refs(h) \subseteq Live(h) /\ Refs(h) \subseteq Items
<1>1. \A j \in Items \ Live(h) : h.at[j] = Freed
  BY DEF Sound
<1>2. Freed.isRef = FALSE
  BY DEF Freed, Struct
<1> QED
  BY <1>1, <1>2 DEF Refs

(* The fields of the items in use, by the lists that they show.              *)
LEMMA FieldsShown ==
    ASSUME NEW h, NEW k, NEW r, Sound(h, k, r), NEW i \in Live(h)
    PROVE  /\ i \in r => h.at[i].next = NULL /\ h.at[i].prev = NULL
           /\ \A q \in Items : \A n \in 1..Len(k[q]) :
                 k[q][n] = i => /\ h.at[i].next = After(k[q], n)
                                /\ h.at[i].prev = Before(k[q], n)
           /\ i \notin Refs(h) => h.at[i].child = After(k[i], 0)
<1>1. /\ Shows(h, k) /\ h \in Heaps(Kinds, AllNames) /\ i \in Items
      /\ \A j \in r : NoChild(k, j)
  BY SoundFacts
<1>2. /\ Nexts(h)[i] = h.at[i].next /\ Prevs(h)[i] = h.at[i].prev
      /\ Firsts(h)[i] = h.at[i].child
  BY <1>1 DEF Nexts, Prevs, Firsts
<1>3. i \in r => h.at[i].next = NULL /\ h.at[i].prev = NULL
  BY <1>1, <1>2, ShownFacts
<1>4. i \notin Refs(h) => h.at[i].child = After(k[i], 0)
  BY <1>1, <1>2, ShownFacts
<1>5. ASSUME NEW q \in Items, NEW n \in 1..Len(k[q]), k[q][n] = i
      PROVE  h.at[i].next = After(k[q], n) /\ h.at[i].prev = Before(k[q], n)
  <2>1. Nexts(h)[k[q][n]] = After(k[q], n) /\ Prevs(h)[k[q][n]] = Before(k[q], n)
    BY <1>1, ShownFacts
  <2> QED
    BY <1>2, <1>5, <2>1
<1> QED
  BY <1>3, <1>4, <1>5

(* What comes after an item of a list is NULL or the next item of it.        *)
LEMMA AfterLive ==
    ASSUME NEW h, NEW k, NEW r, Sound(h, k, r), NEW q \in Items, NEW n \in 0..Len(k[q])
    PROVE  \/ After(k[q], n) = NULL
           \/ /\ After(k[q], n) \in Live(h) /\ n + 1 \in 1..Len(k[q])
              /\ After(k[q], n) = k[q][n + 1]
<1>1. /\ NULL \notin Items /\ k \in [Items -> Seq(Items)]
      /\ Elements(k[q]) \subseteq Live(h)
  BY SoundFacts
<1> SUFFICES ASSUME After(k[q], n) # NULL
             PROVE  /\ After(k[q], n) \in Live(h) /\ n + 1 \in 1..Len(k[q])
                    /\ After(k[q], n) = k[q][n + 1]
  OBVIOUS
<1>2. n + 1 \in 1..Len(k[q]) /\ After(k[q], n) = k[q][n + 1]
  BY <1>1, AfterInList
<1> QED
  BY <1>1, <1>2 DEF Elements

LEMMA BeforeLive ==
    ASSUME NEW h, NEW k, NEW r, Sound(h, k, r), NEW q \in Items, NEW n \in 1..Len(k[q])
    PROVE  \/ Before(k[q], n) = NULL
           \/ /\ Before(k[q], n) \in Live(h) /\ n - 1 \in 1..Len(k[q])
              /\ Before(k[q], n) = k[q][n - 1]
<1>1. /\ k \in [Items -> Seq(Items)] /\ Elements(k[q]) \subseteq Live(h)
  BY SoundFacts
<1>2. Len(k[q]) \in Nat
  BY <1>1, LenProperties
<1>3. CASE n > 1
  <2>1. n - 1 \in 1..Len(k[q])
    BY <1>2, <1>3
  <2> QED
    BY <1>1, <1>3, <2>1 DEF Before, Elements
<1>4. CASE ~(n > 1)
  BY <1>4 DEF Before
<1> QED
  BY <1>3, <1>4

LEMMA RootOrPlaced ==
    ASSUME NEW h, NEW k, NEW r, Sound(h, k, r), NEW i \in Live(h)
    PROVE  i \in r \/ \E q \in Items : \E n \in 1..Len(k[q]) : k[q][n] = i
<1>1. IsForest(Live(h), k, r) /\ Live(h) \subseteq Items
  BY SoundFacts
<1> QED
  BY <1>1, RootOrChild DEF Elements

(* The pointers lead to items in use and mirror one another.                 *)
LEMMA AllLinked ==
    ASSUME NEW h, NEW k, NEW r, Sound(h, k, r), NEW f, Lending(h, f), NEW i \in Live(h)
    PROVE  LET it == h.at[i]
           IN  /\ {it.next, it.prev, it.child} \subseteq {NULL} \cup Live(h)
               /\ it.next # NULL => h.at[it.next].prev = i
               /\ it.prev # NULL => h.at[it.prev].next = i
               /\ it.child # NULL => h.at[it.child].prev = NULL
               /\ i \in r => it.next = NULL /\ it.prev = NULL
<1> DEFINE it == h.at[i]
<1>1. /\ k \in [Items -> Seq(Items)] /\ Live(h) \subseteq Items /\ i \in Items
      /\ \A q \in Items : Elements(k[q]) \subseteq Live(h)
  BY SoundFacts
<1>2. i \in r => it.next = NULL /\ it.prev = NULL
  BY FieldsShown
<1>3. ASSUME NEW q \in Items, NEW n \in 1..Len(k[q]), k[q][n] = i
      PROVE  /\ {it.next, it.prev} \subseteq {NULL} \cup Live(h)
             /\ it.next # NULL => h.at[it.next].prev = i
             /\ it.prev # NULL => h.at[it.prev].next = i
  <2>1. it.next = After(k[q], n) /\ it.prev = Before(k[q], n)
    BY <1>3, FieldsShown
  <2>2. Len(k[q]) \in Nat /\ n \in 0..Len(k[q]) /\ n \in Int
    BY <1>1, LenProperties
  <2>3. ASSUME it.next # NULL
        PROVE  it.next \in Live(h) /\ h.at[it.next].prev = i
    <3>1. it.next \in Live(h) /\ n + 1 \in 1..Len(k[q]) /\ it.next = k[q][n + 1]
      BY <2>1, <2>2, <2>3, AfterLive
    <3>2. h.at[it.next].prev = Before(k[q], n + 1)
      BY <3>1, FieldsShown
    <3>3. Before(k[q], n + 1) = k[q][n]
      <4>1. n + 1 > 1 /\ (n + 1) - 1 = n
        BY <2>2
      <4> QED
        BY <4>1 DEF Before
    <3> QED
      BY <1>3, <3>1, <3>2, <3>3
  <2>4. ASSUME it.prev # NULL
        PROVE  it.prev \in Live(h) /\ h.at[it.prev].next = i
    <3>1. it.prev \in Live(h) /\ n - 1 \in 1..Len(k[q]) /\ it.prev = k[q][n - 1]
      BY <2>1, <2>4, BeforeLive
    <3>2. h.at[it.prev].next = After(k[q], n - 1)
      BY <3>1, FieldsShown
    <3>3. After(k[q], n - 1) = k[q][n]
      <4>1. n - 1 < Len(k[q]) /\ (n - 1) + 1 = n
        BY <2>2
      <4> QED
        BY <4>1 DEF After
    <3> QED
      BY <1>3, <3>1, <3>2, <3>3
  <2> QED
    BY <2>3, <2>4
<1>4. ASSUME NEW q \in Live(h) \ Refs(h), it.child = h.at[q].child, it.child # NULL
      PROVE  it.child \in Live(h) /\ h.at[it.child].prev = NULL
  <2>1. q \in Items /\ it.child = After(k[q], 0) /\ 0 \in 0..Len(k[q])
    <3>1. q \in Items /\ it.child = After(k[q], 0)
      BY <1>1, <1>4, FieldsShown
    <3>2. 0 \in 0..Len(k[q])
      BY <1>1, <3>1, LenProperties
    <3> QED
      BY <3>1, <3>2
  <2>2. it.child \in Live(h) /\ 0 + 1 \in 1..Len(k[q]) /\ it.child = k[q][0 + 1]
    BY <1>4, <2>1, AfterLive
  <2>3. h.at[it.child].prev = Before(k[q], 0 + 1)
    BY <2>1, <2>2, FieldsShown
  <2>4. Before(k[q], 0 + 1) = NULL
    BY DEF Before
  <2> QED
    BY <2>2, <2>3, <2>4
<1>5. it.child # NULL => it.child \in Live(h) /\ h.at[it.child].prev = NULL
  <2>1. CASE i \in Refs(h)
    BY <1>4, <2>1 DEF Lending
  <2>2. CASE i \notin Refs(h)
    BY <1>4, <2>2
  <2> QED
    BY <2>1, <2>2
<1>6. i \in r \/ \E q \in Items : \E n \in 1..Len(k[q]) : k[q][n] = i
  BY RootOrPlaced
<1>7. /\ {it.next, it.prev} \subseteq {NULL} \cup Live(h)
      /\ it.next # NULL => h.at[it.next].prev = i
      /\ it.prev # NULL => h.at[it.prev].next = i
  BY <1>2, <1>3, <1>6
<1> QED
  BY <1>2, <1>5, <1>7

LEMMA LendingPointers ==
    ASSUME NEW h, NEW k, NEW r, Sound(h, k, r), NEW f, Lending(h, f)
    PROVE  PointersLive(h)
BY AllLinked DEF PointersLive

-----------------------------------------------------------------------------
(* What leaves alone the items that are shared leaves what references share. *)
LEMMA LendingKept ==
    ASSUME NEW h, NEW f, Lending(h, f), NEW h2, Refs(h2) \subseteq Refs(h),
           \A j \in Refs(h2) : /\ h2.at[j].child = h.at[j].child
                               /\ f[j] \in Live(h2) \ Refs(h2)
                               /\ h2.at[f[j]].child = h.at[f[j]].child
    PROVE  Lending(h2, f)
BY DEF Lending

LEMMA LendingForgot ==
    ASSUME NEW h, NEW f, Lending(h, f)
    PROVE  Lending(h, Forgot(h, f))
<1>1. f \in [Items -> Pointers]
  BY DEF Lending
<1>2. Forgot(h, f) \in [Items -> Pointers]
  BY <1>1 DEF Forgot, Pointers
<1>3. \A j \in Refs(h) : Forgot(h, f)[j] = f[j]
  BY DEF Forgot, Refs
<1> QED
  BY <1>2, <1>3 DEF Lending

LEMMA LendingRelinked ==
    ASSUME NEW h, NEW f, Lending(h, f), NEW h2, NEW k, NEW k2, NEW p,
           Relinked(h, k, h2, k2, p), Live(h) \subseteq Items,
           Live(h2) = Live(h), Refs(h2) = Refs(h),
           p \notin Refs(h), \A j \in Refs(h) : f[j] # p
    PROVE  Lending(h2, f)
<1>1. \A j \in Items : j # p => h2.at[j].child = h.at[j].child
  BY DEF Relinked, Firsts
<1>2. \A j \in Refs(h) : j \in Items /\ f[j] \in Items
  BY DEF Refs, Lending
<1> QED
  BY <1>1, <1>2 DEF Lending

LEMMA LendingExtended ==
    ASSUME NEW h, NEW k, NEW r, Sound(h, k, r), NEW f, Lending(h, f),
           NEW h2, NEW k2, NEW R, Extends(h, k, r, h2, k2, R)
    PROVE  Lending(h2, f)
<1>1. Refs(h) \subseteq Live(h) /\ Live(h) \subseteq Live(h2)
  BY RefsLive DEF Extends
<1>2. Refs(h2) \subseteq Live(h2)
  BY RefsLive DEF Extends
<1>3. \A j \in Live(h) : h2.at[j] = h.at[j] /\ j \in Items
  BY DEF Extends, Live
<1>4. Refs(h2) = Refs(h)
  BY <1>1, <1>2, <1>3 DEF Extends, Refs
<1> QED
  BY <1>1, <1>3, <1>4 DEF Lending

LEMMA LendingDeleted ==
    ASSUME NEW h, NEW k, NEW r, Sound(h, k, r), NEW f, Lending(h, f),
           NEW G, NEW h2, Live(h2) = Live(h) \ G,
           \A j \in Items : h2.at[j] = IF j \in G THEN Freed ELSE h.at[j],
           \A j \in Refs(h) \ G : f[j] \notin G
    PROVE  Lending(h2, f)
<1>1. Freed.isRef = FALSE
  BY DEF Freed, Struct
<1>2. Refs(h2) = Refs(h) \ G
  BY <1>1 DEF Refs
<1>3. \A j \in Refs(h) : j \in Items /\ f[j] \in Items
  BY RefsLive, SoundFacts DEF Lending
<1> QED
  BY <1>2, <1>3 DEF Lending

(* A name is written into an item in use.                                   *)
LEMMA LendingRelabelled ==
    ASSUME NEW h, NEW k, NEW r, Sound(h, k, r), NEW f, Lending(h, f), NEW x \in Live(h),
           NEW cell, NEW h2, Becoming(h, x, cell, h2), SameLinks(cell, h.at[x]),
           Live(h2) = Live(h), Refs(h2) = Refs(h)
    PROVE  Lending(h2, f)
<1>1. \A j \in Items : h2.at[j].child = h.at[j].child
  <2>1. h2.at = [h.at EXCEPT ![x] = cell] /\ cell.child = h.at[x].child
    BY DEF Becoming, SameLinks
  <2>2. DOMAIN h.at = Items
    BY SoundFacts DEF Heaps
  <2> QED
    BY <2>1, <2>2
<1>2. \A j \in Refs(h) : j \in Items /\ f[j] \in Items
  BY RefsLive, SoundFacts DEF Lending
<1> QED
  BY <1>1, <1>2 DEF Lending

-----------------------------------------------------------------------------
(* A tree that the changed list is not in stays as it is.                   *)
LEMMA TreeUntouched ==
    ASSUME NEW k \in [Items -> Seq(Items)], NEW k2 \in [Items -> Seq(Items)],
           NEW i \in Items, NEW p, p \notin Tree(k, i),
           \A j \in Items : j # p => k2[j] = k[j]
    PROVE  Tree(k2, i) = Tree(k, i)
<1>1. /\ i \in Tree(k, i) /\ Tree(k, i) \in SUBSET Items
      /\ i \in Tree(k2, i) /\ Tree(k2, i) \in SUBSET Items
  BY TreeHasRoot
<1>2. Closed(k2, Tree(k, i))
  <2>1. \A j \in Tree(k, i) : k2[j] = k[j] /\ Elements(k[j]) \subseteq Tree(k, i)
    BY <1>1, TreeClosed
  <2> QED
    BY <2>1 DEF Closed
<1>3. Tree(k2, i) \subseteq Tree(k, i)
  BY <1>1, <1>2, TreeLeast
<1>4. Closed(k, Tree(k2, i))
  <2>1. \A j \in Tree(k2, i) : k2[j] = k[j] /\ Elements(k2[j]) \subseteq Tree(k2, i)
    BY <1>1, <1>3, TreeClosed
  <2> QED
    BY <2>1 DEF Closed
<1>5. Tree(k, i) \subseteq Tree(k2, i)
  BY <1>1, <1>4, TreeLeast
<1> QED
  BY <1>3, <1>5

Descends(S, step, left, Done) ==
    /\ step \in [S -> S] /\ left \in [S -> Nat] /\ Done \in SUBSET S
    /\ \A s \in Done : step[s] = s
    /\ \A s \in S \ Done : left[step[s]] < left[s]

Steps(S, a, step, r) ==
    a \in S /\ r[0] = a /\ \A n \in Nat : r[n] \in S => r[n + 1] = step[r[n]]

LEMMA RunEnds ==
    ASSUME NEW S, NEW step, NEW left, NEW Done, Descends(S, step, left, Done),
           NEW a, NEW r, Steps(S, a, step, r), NEW n \in Nat, left[a] <= n
    PROVE  r[n] \in Done
BY Runs DEF Descends, Steps

(* The items under one, gathered level by level, are its tree.               *)
LEMMA LevelsReach ==
    ASSUME IsFiniteSet(Items), NEW k \in [Items -> Seq(Items)], NEW i \in Items
    PROVE  LET reached[n \in Nat] ==
                   IF n = 0 THEN {i}
                   ELSE reached[n - 1] \cup UNION {Elements(k[j]) : j \in reached[n - 1]}
           IN  reached[Cardinality(Items)] = Tree(k, i)
<1> DEFINE T     == Tree(k, i)
           More(X) == X \cup UNION {Elements(k[j]) : j \in X}
           S     == {X \in SUBSET T : i \in X}
           step  == [X \in S |-> More(X)]
           left  == [X \in S |-> Cardinality(Items \ X)]
           Done  == {X \in S : More(X) = X}
           D(g, n) == IF n = 0 THEN {i} ELSE More(g[n - 1])
           Follows(g) == g = [n \in Nat |-> D(g, n)]
           run   == CHOOSE g : Follows(g)
           N     == Cardinality(Items)
           U == run[N]
<1>1. IsFiniteSet(Items)
  OBVIOUS
<1> SUFFICES U = Tree(k, i)
  OBVIOUS
<1>2. i \in T /\ T \in SUBSET Items
  BY TreeHasRoot
<1>3. ASSUME NEW X \in S PROVE More(X) \in S /\ X \subseteq More(X)
  <2>1. \A j \in X : Elements(k[j]) \subseteq T
    BY TreeClosed
  <2> HIDE DEF T
  <2> QED
    BY <2>1
<1> HIDE DEF T
<1>4. \A X \in S : Cardinality(Items \ X) \in Nat
  <2>1. ASSUME NEW X \in S PROVE Cardinality(Items \ X) \in Nat
    <3>1. IsFiniteSet(Items \ X)
      BY <1>1, FS_Subset
    <3> QED
      BY <3>1, FS_CardinalityType
  <2> QED
    BY <2>1
<1>5. step \in [S -> S] /\ left \in [S -> Nat] /\ Done \in SUBSET S
  <2> HIDE DEF S, More
  <2> QED
    BY <1>3, <1>4
<1>6. \A X \in Done : step[X] = X
  <2> HIDE DEF S, More
  <2> QED
    OBVIOUS
<1>7. ASSUME NEW X \in S \ Done PROVE left[step[X]] < left[X]
  <2> DEFINE A == Items \ X
             B == Items \ More(X)
  <2>1. X \in S /\ More(X) \in S /\ X \subseteq More(X) /\ More(X) # X
    <3> HIDE DEF S, More
    <3> QED
      BY <1>3
  <2>2. B \subseteq A /\ B # A
    <3>1. More(X) \subseteq Items
      BY <1>2, <2>1
    <3> HIDE DEF More
    <3> QED
      BY <2>1, <3>1
  <2> HIDE DEF S, More
  <2>3. left[step[X]] = Cardinality(B) /\ left[X] = Cardinality(A)
    BY <2>1
  <2>4. IsFiniteSet(A)
    BY <1>1, FS_Subset
  <2> HIDE DEF A, B
  <2>5. Cardinality(B) < Cardinality(A)
    BY <2>2, <2>4, FS_Subset, FS_CardinalityType
  <2> QED
    BY <2>3, <2>5
<1>8. {i} \in S
  BY <1>2
<1>9. Follows(run)
  <2>1. PICK g : Iterates(g, S, {i}, step)
    <3> HIDE DEF S, step, left, Done, D, Follows, run, N, U
    <3> QED
      BY <1>5, <1>8, SomeIterates
  <2>2. g \in [Nat -> S] /\ g[0] = {i} /\ \A n \in Nat : g[n + 1] = step[g[n]]
    <3> HIDE DEF S, step, left, Done, D, Follows, run, N, U
    <3> QED
      BY <2>1 DEF Iterates
  <2>3. ASSUME NEW n \in Nat PROVE g[n] = D(g, n)
    <3>1. CASE n = 0
      BY <2>2, <3>1
    <3>2. CASE n # 0
      <4>1. n - 1 \in Nat /\ (n - 1) + 1 = n
        BY <3>2
      <4>2. g[(n - 1) + 1] = step[g[n - 1]] /\ g[n - 1] \in S
        BY <2>2, <4>1
      <4> HIDE DEF S, More
      <4> QED
        BY <3>2, <4>1, <4>2
    <3> QED
      BY <3>1, <3>2
  <2>4. g = [n \in Nat |-> g[n]]
    <3> HIDE DEF S, step, left, Done, D, Follows, run, N, U
    <3> QED
      BY <2>2
  <2>5. Follows(g)
    <3> HIDE DEF D
    <3> QED
      BY <2>3, <2>4
  <2> HIDE DEF Follows
  <2> QED
    BY <2>5
<1> HIDE DEF run
<1>11. run[0] = {i} /\ \A n \in Nat : run[n] \in S => run[n + 1] = step[run[n]]
  <2>1. \A n \in Nat : run[n] = D(run, n)
    BY <1>9
  <2>2. run[0] = {i}
    BY <2>1
  <2>3. ASSUME NEW n \in Nat, run[n] \in S PROVE run[n + 1] = step[run[n]]
    <3>1. n + 1 \in Nat /\ n + 1 # 0 /\ (n + 1) - 1 = n
      OBVIOUS
    <3>2. run[n + 1] = D(run, n + 1)
      BY <2>1, <3>1
    <3> HIDE DEF S, More
    <3> QED
      BY <2>3, <3>1, <3>2
  <2> QED
    BY <2>2, <2>3
<1>12. N \in Nat /\ left[{i}] <= N
  <2>1. left[{i}] = Cardinality(Items \ {i})
    <3> HIDE DEF S
    <3> QED
      BY <1>8
  <2>2. Cardinality(Items \ {i}) <= Cardinality(Items) /\ Cardinality(Items) \in Nat
        /\ Cardinality(Items \ {i}) \in Nat
    BY <1>1, FS_Subset, FS_CardinalityType
  <2> HIDE DEF left
  <2> QED
    BY <2>1, <2>2
<1>13. run[N] \in Done
  <2> DEFINE a == {i}
  <2>1. a \in S /\ run[0] = a /\ left[a] <= N
    BY <1>8, <1>11, <1>12
  <2>2. /\ \A n \in Nat : run[n] \in S => run[n + 1] = step[run[n]]
        /\ \A X \in S \ Done : left[step[X]] < left[X]
    <3> HIDE DEF S, step, left, Done, N
    <3> QED
      BY <1>7, <1>11
  <2> HIDE DEF S, step, left, Done, N, a, U
  <2>3. N \in Nat
    BY <1>12
  <2>4. Descends(S, step, left, Done)
    BY <1>5, <1>6, <2>2 DEF Descends
  <2>5. Steps(S, a, step, run)
    BY <2>1, <2>2 DEF Steps
  <2> QED
    BY <2>1, <2>3, <2>4, <2>5, RunEnds
<1>14. U \in SUBSET T /\ i \in U /\ More(U) = U
  <2>1. U \in Done
    BY <1>13
  <2> HIDE DEF U, More
  <2> QED
    BY <2>1
<1> HIDE DEF U
<1>15. Closed(k, U) /\ U \in SUBSET Items
  BY <1>2, <1>14 DEF Closed
<1>16. T \subseteq U
  BY <1>14, <1>15, TreeLeast DEF T
<1> QED
  BY <1>14, <1>16 DEF T
LEMMA UnderIsTree ==
    ASSUME lists \in [Items -> Seq(Items)], NEW i \in Items
    PROVE  Under(i) = Tree(lists, i)
BY TreesAssumption, LevelsReach DEF Under

-----------------------------------------------------------------------------
(* What create_reference writes into the new item. *)
SharedCell(it) ==
    [it EXCEPT !.isRef = TRUE, !.name = NULL, !.next = NULL, !.prev = NULL]

LEMMA SharedCellFacts ==
    ASSUME NEW it \in Cells(Kinds, AllNames), it.type # "Freed"
    PROVE  LET cell == SharedCell(it)
           IN  /\ cell \in Cells(Kinds, AllNames) /\ cell.type = it.type
               /\ cell.isRef = TRUE /\ cell.next = NULL /\ cell.prev = NULL
               /\ cell.child = it.child /\ SizeOf(cell) = 1
<1> DEFINE cell == SharedCell(it)
<1>1. NULL \in AllNames /\ NULL \in Pointers
  BY DEF AllNames, Pointers
<1>2. /\ cell \in Cells(Kinds, AllNames) /\ cell.type = it.type
      /\ cell.next = NULL /\ cell.prev = NULL /\ cell.name = NULL
      /\ cell.child = it.child
  BY <1>1 DEF Cells, SharedCell
<1>3. cell.isRef = TRUE
  BY DEF Cells, SharedCell
<1> HIDE DEF cell
<1>4. SizeOf(cell) = 1
  BY <1>2, <1>3 DEF SizeOf, BlocksOf, OwnsText, OwnsName
<1> QED
  BY <1>2, <1>3, <1>4 DEF cell

(* The item that a reference to i shares. *)
SharedBy(h, f, i) == IF h.at[i].isRef THEN f[i] ELSE i

RefersTo(h, k, r, f, i, x, h2) ==
    /\ x \in Items \ Live(h)
    /\ Sound(h2, k, r \cup {x}) /\ Live(h2) = Live(h) \cup {x}
    /\ Refs(h2) = Refs(h) \cup {x}
    /\ \A j \in Items : j # x => h2.at[j] = h.at[j]
    /\ h2.at[x].child = h.at[i].child
    /\ Lending(h2, [f EXCEPT ![x] = SharedBy(h, f, i)])

LEMMA SharesChildren ==
    ASSUME NEW h, NEW k, NEW r, Sound(h, k, r), NEW f, Lending(h, f), NEW i \in Live(h)
    PROVE  /\ SharedBy(h, f, i) \in Live(h) \ Refs(h)
           /\ h.at[SharedBy(h, f, i)].child = h.at[i].child
<1>1. i \in Items
  BY SoundFacts
<1> QED
  BY <1>1 DEF SharedBy, Lending, Refs

LEMMA LendingOneMore ==
    ASSUME NEW h, NEW k, NEW r, Sound(h, k, r), NEW f, Lending(h, f), NEW i \in Live(h),
           NEW x \in Items \ Live(h), NEW h2, Live(h2) = Live(h) \cup {x},
           Refs(h2) = Refs(h) \cup {x},
           \A j \in Items : j # x => h2.at[j] = h.at[j],
           h2.at[x].child = h.at[i].child
    PROVE  Lending(h2, [f EXCEPT ![x] = SharedBy(h, f, i)])
<1> DEFINE g == SharedBy(h, f, i)
           f2 == [f EXCEPT ![x] = g]
<1>1. g \in Live(h) \ Refs(h) /\ h.at[g].child = h.at[i].child
  BY SharesChildren
<1> HIDE DEF g
<1>2. f \in [Items -> Pointers] /\ Live(h) \subseteq Items /\ Refs(h) \subseteq Live(h)
  BY SoundFacts, RefsLive DEF Lending
<1>3. f2 \in [Items -> Pointers] /\ f2[x] = g /\ \A j \in Items : j # x => f2[j] = f[j]
  BY <1>1, <1>2 DEF Pointers
<1> HIDE DEF f2
<1>4. ASSUME NEW j \in Refs(h)
      PROVE  f2[j] \in Live(h2) \ Refs(h2) /\ h2.at[j].child = h2.at[f2[j]].child
  <2>1. j \in Items /\ j # x /\ f2[j] = f[j]
    BY <1>2, <1>3
  <2>2. f[j] \in Live(h) \ Refs(h) /\ h.at[j].child = h.at[f[j]].child
    BY DEF Lending
  <2>3. f[j] # x /\ f[j] \in Items
    BY <1>2, <2>2
  <2>4. h2.at[j] = h.at[j] /\ h2.at[f[j]] = h.at[f[j]]
    BY <2>1, <2>3
  <2> QED
    BY <2>1, <2>2, <2>3, <2>4
<1>5. g # x /\ g \in Items
  BY <1>1, <1>2
<1>6. f2[x] \in Live(h2) \ Refs(h2) /\ h2.at[x].child = h2.at[f2[x]].child
  BY <1>1, <1>3, <1>5
<1>7. Lending(h2, f2)
  BY <1>3, <1>4, <1>6 DEF Lending
<1> QED
  BY <1>7 DEF f2, g

(* Where there is memory for it create_reference makes a new root that has the *)
(* first child of the item it refers to.                                    *)
LEMMA ReferenceMade ==
    ASSUME IsFiniteSet(Items), NEW h, NEW k, NEW r, Sound(h, k, r),
           NEW f, Lending(h, f), NEW i \in Live(h),
           create_reference(h, i).item # NULL
    PROVE  LET ref == create_reference(h, i)
           IN  RefersTo(h, k, r, f, i, ref.item, ref.h)
<1> DEFINE ref  == create_reference(h, i)
           type == h.at[i].type
           new  == cJSON_New_Item(h, type)
           x    == CHOOSE j \in FreeItems(h) : TRUE
           h1   == [Taken(h) EXCEPT !.at[x] = Struct(type)]
           cell == SharedCell(h.at[i])
           h2   == [h1 EXCEPT !.at[x] = cell]
<1>1. /\ h \in Heaps(Kinds, AllNames) /\ i \in Items /\ Live(h) \subseteq Items
      /\ NULL \notin Items /\ \A j \in Items \ Live(h) : h.at[j] = Freed
  BY SoundFacts
<1>2. /\ h.at \in [Items -> Cells(Kinds, AllNames)] /\ h.live \in Int /\ h.allocs \in Int
      /\ h.at[i] \in Cells(Kinds, AllNames) /\ h.at[i].type # "Freed"
      /\ type \in Kinds \ {"Freed"}
  <2>1. h.at \in [Items -> Cells(Kinds, AllNames)] /\ h.live \in Int /\ h.allocs \in Int
        /\ h.at[i] \in Cells(Kinds, AllNames)
    BY <1>1, CellOf
  <2>2. h.at[i].type # "Freed"
    BY DEF Live
  <2> QED
    BY <2>1, <2>2 DEF Cells
<1>3. Granted(h) /\ FreeItems(h) # {}
  BY DEF create_reference, cJSON_New_Item, Result
<1>4. x \in FreeItems(h)
  BY <1>3
<1>5. x \in Items \ Live(h) /\ h.at[x] = Freed /\ x # NULL /\ x # i
  BY <1>1, <1>2, <1>4 DEF FreeItems, Live
<1>6. ref.item = x /\ ref.h = h2
  <2>1. new = Result(h1, x)
    BY <1>3 DEF cJSON_New_Item
  <2>2. ref = IF new.item = NULL THEN new
              ELSE Result([new.h EXCEPT !.at[new.item] = cell], new.item)
    BY DEF create_reference, SharedCell
  <2> HIDE DEF ref, new, x, h1, cell
  <2>3. new.item = x /\ new.h = h1
    BY <2>1 DEF Result
  <2>4. ref = Result(h2, x)
    BY <1>5, <2>2, <2>3
  <2> HIDE DEF h2
  <2> QED
    BY <2>4 DEF Result
<1> HIDE DEF x, new, ref
<1>7. /\ cell \in Cells(Kinds, AllNames) /\ cell.type # "Freed"
      /\ cell.isRef = TRUE /\ cell.next = NULL /\ cell.prev = NULL
      /\ cell.child = h.at[i].child /\ SizeOf(cell) = 1
  BY <1>2, SharedCellFacts
<1> HIDE DEF cell
<1>8. h2 = [at |-> [h.at EXCEPT ![x] = cell], live |-> h.live + 1,
            allocs |-> h.allocs - 1]
  <2>1. Taken(h) = [at |-> h.at, live |-> h.live + 1, allocs |-> h.allocs - 1]
    BY <1>1, TakenOne
  <2>2. h1 = [at |-> [h.at EXCEPT ![x] = Struct(type)], live |-> h.live + 1,
              allocs |-> h.allocs - 1]
    BY <2>1
  <2> HIDE DEF h1
  <2>3. h2 = [at |-> [[h.at EXCEPT ![x] = Struct(type)] EXCEPT ![x] = cell],
              live |-> h.live + 1, allocs |-> h.allocs - 1]
    BY <2>2
  <2>4. [[h.at EXCEPT ![x] = Struct(type)] EXCEPT ![x] = cell] = [h.at EXCEPT ![x] = cell]
    BY <1>2, <1>5
  <2> QED
    BY <2>3, <2>4
<1> HIDE DEF h2
<1>9. Becoming(h, x, cell, h2)
  <2>1. h2 \in Heaps(Kinds, AllNames)
    <3>1. h.live + 1 \in Int /\ h.allocs - 1 \in Int
      BY <1>2
    <3> QED
      BY <1>2, <1>5, <1>7, <1>8, <3>1, HeapMade
  <2>2. h2.at = [h.at EXCEPT ![x] = cell] /\ h2.live = h.live + 1
    BY <1>8
  <2>3. h2.live = h.live + SizeOf(cell) - SizeOf(h.at[x])
    BY <1>2, <1>5, <1>7, <2>2, FreedIsCell
  <2> QED
    BY <1>5, <1>7, <2>1, <2>2, <2>3 DEF Becoming
<1>10. Sound(h2, k, r \cup {x}) /\ Live(h2) = Live(h) \cup {x}
  BY <1>5, <1>7, <1>9, Appeared
<1>11. h2.at[x] = cell /\ \A j \in Items : j # x => h2.at[j] = h.at[j]
  BY <1>2, <1>5, <1>8
<1>12. Refs(h2) = Refs(h) \cup {x}
  BY <1>5, <1>7, <1>11 DEF Refs
<1>13. Lending(h2, [f EXCEPT ![x] = SharedBy(h, f, i)])
  BY <1>5, <1>7, <1>10, <1>11, <1>12, LendingOneMore
<1>14. RefersTo(h, k, r, f, i, x, h2)
  BY <1>5, <1>7, <1>10, <1>11, <1>12, <1>13 DEF RefersTo
<1> QED
  BY <1>6, <1>14 DEF ref

-----------------------------------------------------------------------------
(* A name is written to an item in use, or taken from it.                   *)
Alike(h, k, r, f, h2) ==
    Sound(h2, k, r) /\ Lending(h2, f) /\ Live(h2) = Live(h) /\ Refs(h2) = Refs(h)

LEMMA RenamedSound ==
    ASSUME IsFiniteSet(Items), NEW h, NEW k, NEW r, Sound(h, k, r),
           NEW f, Lending(h, f), NEW x \in Live(h),
           NEW name \in AllNames, NEW const \in BOOLEAN,
           NEW t, t = IF name = NULL \/ const THEN h ELSE Taken(h)
    PROVE  Alike(h, k, r, f, Renamed(t, x, name, const))
<1> DEFINE h2   == Renamed(t, x, name, const)
           cell == Named(h.at[x], name, const)
<1>1. /\ h \in Heaps(Kinds, AllNames) /\ x \in Items /\ h.at[x].type # "Freed"
  BY SoundFacts DEF Live
<1>2. Becoming(h, x, cell, h2) /\ SameLinks(cell, h.at[x])
  BY <1>1, RenamedWritten
<1> HIDE DEF h2, cell
<1>3. Sound(h2, k, r) /\ Live(h2) = Live(h) /\ Refs(h2) = Refs(h)
  BY <1>2, Relabelled DEF SameLinks
<1>4. Lending(h2, f)
  BY <1>2, <1>3, LendingRelabelled
<1> QED
  BY <1>3, <1>4 DEF h2, Alike

LEMMA CopiedNameSound ==
    ASSUME IsFiniteSet(Items), NEW h, NEW k, NEW r, Sound(h, k, r),
           NEW f, Lending(h, f), NEW x \in Live(h), NEW name \in AllNames, name # NULL
    PROVE  Alike(h, k, r, f, WithCopiedName(h, x, name))
<1>1. NULL \in AllNames /\ FALSE \in BOOLEAN
  BY DEF AllNames
<1>2. CASE Granted(h)
  <2> DEFINE t == Taken(h)
  <2>1. t = IF name = NULL \/ FALSE THEN h ELSE Taken(h)
    OBVIOUS
  <2> HIDE DEF t
  <2>2. Alike(h, k, r, f, Renamed(t, x, name, FALSE))
    BY <1>1, <2>1, RenamedSound
  <2> QED
    BY <1>2, <2>2 DEF WithCopiedName, t
<1>3. CASE ~Granted(h)
  <2>1. Alike(h, k, r, f, Renamed(h, x, NULL, FALSE))
    <3>1. h = IF NULL = NULL \/ FALSE THEN h ELSE Taken(h)
      OBVIOUS
    <3> QED
      BY <1>1, <3>1, RenamedSound
  <2> QED
    BY <1>3, <2>1 DEF WithCopiedName
<1> QED
  BY <1>2, <1>3

-----------------------------------------------------------------------------
(* The operators of ItemForest under its instance are those of ItemTrees.    *)
LEMMA ForestTree ==
    ASSUME NEW k, NEW i
    PROVE  Forest!Tree(k, i) = Tree(k, i)
BY DEF Forest!Tree, Tree, Forest!Closed, Closed, Forest!Elements, Elements

LEMMA ForestInserted ==
    ASSUME NEW s, NEW c, NEW i
    PROVE  Forest!Inserted(s, c, i) = Inserted(s, c, i)
BY DEF Forest!Inserted, Inserted

LEMMA ForestWithout ==
    ASSUME NEW s, NEW c
    PROVE  Forest!Without(s, c) = Without(s, c)
BY DEF Forest!Without, Without

LEMMA ForestPruned ==
    ASSUME NEW k, NEW G
    PROVE  Forest!Pruned(k, G) = Pruned(k, G)
BY DEF Forest!Pruned, Pruned

LEMMA ForestNewTree ==
    ASSUME NEW N, NEW k, NEW i
    PROVE  Forest!IsNewTree(N, k, i) = IsNewTree(N, k, i)
BY ForestTree DEF Forest!IsNewTree, IsNewTree, Forest!Elements, Elements

InUse == Live(Heap(0))

LEMMA InUseIs == InUse = {i \in Items : Alive(i)}
BY DEF InUse, Live, Heap, Alive

LEMMA InUseNext == InUse' = {i \in Items : Alive(i)}'
BY DEF InUse, Live, Heap, Alive

LEMMA CreateStep ==
    ASSUME NEW N \in SUBSET Items, NEW i \in N, N \cap InUse = {},
           InUse' = InUse \cup N, held' = held \cup {i},
           lists' \in [Items -> Seq(Items)],
           \A j \in Items \ N : lists'[j] = lists[j],
           IsNewTree(N, lists', i)
    PROVE  Forest!Next
<1>1. Forest!Create(N, i)
  BY InUseIs, InUseNext, ForestNewTree DEF Forest!Create
<1> QED
  BY <1>1 DEF Forest!Next

LEMMA InsertStep ==
    ASSUME NEW p \in InUse, NEW i \in held, NEW c \in 1..(Len(lists[p]) + 1),
           p \notin Tree(lists, i), InUse' = InUse, held' = held \ {i},
           lists' = [lists EXCEPT ![p] = Inserted(@, c, i)]
    PROVE  Forest!Next
<1>1. lists' = [lists EXCEPT ![p] = Forest!Inserted(@, c, i)]
  BY ForestInserted
<1>2. p \notin Forest!Tree(lists, i)
  BY ForestTree
<1>3. Forest!Insert(p, c, i)
  BY <1>1, <1>2, InUseIs, InUseNext DEF Forest!Insert
<1> QED
  BY <1>3, InUseIs DEF Forest!Next

LEMMA InsertNewStep ==
    ASSUME NEW p \in InUse, NEW i \in Items \ InUse,
           InUse' = InUse \cup {i}, UNCHANGED held,
           lists' = [lists EXCEPT ![p] = Inserted(@, Len(@) + 1, i)]
    PROVE  Forest!Next
<1>1. lists' = [lists EXCEPT ![p] = Forest!Inserted(@, Len(@) + 1, i)]
  BY ForestInserted
<1>2. Forest!InsertNew(p, i)
  BY <1>1, InUseIs, InUseNext DEF Forest!InsertNew
<1> QED
  BY <1>2, InUseIs DEF Forest!Next

LEMMA DetachStep ==
    ASSUME NEW p \in InUse, NEW c \in 1..Len(lists[p]),
           InUse' = InUse, held' = held \cup {lists[p][c]},
           lists' = [lists EXCEPT ![p] = Without(@, c)]
    PROVE  Forest!Next
<1>1. lists' = [lists EXCEPT ![p] = Forest!Without(@, c)]
  BY ForestWithout
<1>2. Forest!Detach(p, c)
  BY <1>1, InUseIs, InUseNext DEF Forest!Detach
<1> QED
  BY <1>2, InUseIs DEF Forest!Next

LEMMA DeleteStepIs ==
    ASSUME NEW i \in held, InUse' = InUse \ Tree(lists, i), held' = held \ {i},
           lists' = Pruned(lists, Tree(lists, i))
    PROVE  Forest!Next
<1>1. Forest!Delete(i)
  BY ForestTree, ForestPruned, InUseIs, InUseNext DEF Forest!Delete
<1> QED
  BY <1>1 DEF Forest!Next

LEMMA DeleteFromStep ==
    ASSUME NEW p \in InUse, NEW c \in 1..Len(lists[p]),
           NEW rest, rest = [lists EXCEPT ![p] = Without(@, c)],
           NEW gone, gone = Tree(rest, lists[p][c]),
           InUse' = InUse \ gone, UNCHANGED held, lists' = Pruned(rest, gone)
    PROVE  Forest!Next
<1>1. rest = [lists EXCEPT ![p] = Forest!Without(@, c)]
  BY ForestWithout
<1>2. gone = Forest!Tree(rest, lists[p][c])
  BY ForestTree
<1>3. lists' = Forest!Pruned(rest, gone)
  BY ForestPruned
<1>4. Forest!DeleteFrom(p, c)
  BY <1>1, <1>2, <1>3, InUseIs, InUseNext DEF Forest!DeleteFrom
<1> QED
  BY <1>4, InUseIs DEF Forest!Next

LEMMA ReplaceStep ==
    ASSUME NEW p \in InUse, NEW c \in 1..Len(lists[p]), NEW i \in held,
           p \notin Tree(lists, i),
           NEW rest, rest = [lists EXCEPT ![p] = Inserted(Without(@, c), c, i)],
           NEW gone, gone = Tree(rest, lists[p][c]),
           InUse' = InUse \ gone, held' = held \ {i}, lists' = Pruned(rest, gone)
    PROVE  Forest!Next
<1>1. rest = [lists EXCEPT ![p] = Forest!Inserted(Forest!Without(@, c), c, i)]
  BY ForestWithout, ForestInserted
<1>2. gone = Forest!Tree(rest, lists[p][c]) /\ p \notin Forest!Tree(lists, i)
  BY ForestTree
<1>3. lists' = Forest!Pruned(rest, gone)
  BY ForestPruned
<1>4. Forest!Replace(p, c, i)
  BY <1>1, <1>2, <1>3, InUseIs, InUseNext DEF Forest!Replace
<1> QED
  BY <1>4, InUseIs DEF Forest!Next

-----------------------------------------------------------------------------
(* What is true of the items between two calls.                             *)
IInv == Sound(Heap(0), lists, held) /\ Lending(Heap(0), lent)

(* A heap in which only names or what is left of the memory differ.          *)
Still(h) == Alike(Heap(0), lists, held, lent, h)

(* What a step makes of the items, and of the forest that they are.          *)
Keeps == IInv' /\ (Forest!Next \/ UNCHANGED Forest!vars)

LEMMA HeapStill ==
    ASSUME IInv, NEW a \in Int
    PROVE  Still(Heap(a))
<1> DEFINE h0 == Heap(0)
           h  == Heap(a)
<1>1. /\ Sound(h0, lists, held) /\ Lending(h0, lent) /\ h0 \in Heaps(Kinds, AllNames)
  BY SoundFacts DEF IInv
<1>2. h.at = h0.at /\ h.live = h0.live /\ h \in Heaps(Kinds, AllNames)
  BY <1>1 DEF Heap, Heaps
<1> HIDE DEF h, h0
<1>3. Sound(h, lists, held) /\ Live(h) = Live(h0) /\ Refs(h) = Refs(h0)
  BY <1>1, <1>2, SoundSame
<1>4. Lending(h, lent)
  BY <1>1, <1>2, <1>3 DEF Lending
<1>5. Alike(h0, lists, held, lent, h)
  BY <1>3, <1>4 DEF Alike
<1> QED
  BY <1>5 DEF Still, h, h0

LEMMA StillFacts ==
    ASSUME NEW h, Still(h)
    PROVE  /\ Sound(h, lists, held) /\ Lending(h, lent)
           /\ Live(h) = InUse /\ Refs(h) = Refs(Heap(0))
BY DEF Still, Alike, InUse

(* What is stored after a call is what the heap shows that it returns.       *)
LEMMA Stored ==
    ASSUME NEW h, NEW k, NEW r, Sound(h, k, r), NEW f, Lending(h, f), Memory(h)
    PROVE  /\ at' = h.at /\ lists' = k /\ InUse' = Live(h)
           /\ Sound(Heap(0)', k, r) /\ Lending(Heap(0)', f)
<1>1. /\ h \in Heaps(Kinds, AllNames) /\ Shows(h, k) /\ k \in [Items -> Seq(Items)]
      /\ IsFiniteSet(Items)
  BY SoundFacts, TreesAssumption
<1>2. at' = h.at /\ blocks' = h.live
      /\ lists' = [i \in Items |-> IF h.at[i].isRef THEN <<>> ELSE Children(h.at, i)]
  BY DEF Memory
<1>3. ASSUME NEW i \in Items
      PROVE  (IF h.at[i].isRef THEN <<>> ELSE Children(h.at, i)) = k[i]
  <2>1. CASE i \in Refs(h)
    <3>1. k[i] = <<>> /\ h.at[i].isRef
      BY <1>1, <2>1, ShownFacts DEF Refs
    <3> QED
      BY <3>1
  <2>2. CASE i \notin Refs(h)
    <3>1. Children(h.at, i) = k[i]
      BY <1>1, <2>2, ChildrenShown
    <3>2. h.at[i].isRef = FALSE
      BY <1>1, <2>2 DEF Refs, Heaps, Cells
    <3> QED
      BY <3>1, <3>2
  <2> QED
    BY <2>1, <2>2
<1>4. lists' = k
  <2>1. lists' = [i \in Items |-> k[i]]
    BY <1>2, <1>3
  <2> QED
    BY <1>1, <2>1
<1> DEFINE h2 == Heap(0)'
<1>5. h2.at = h.at /\ h2.live = h.live /\ h2 \in Heaps(Kinds, AllNames)
  BY <1>1, <1>2 DEF Heap, Heaps
<1>6. InUse' = Live(h2)
  BY DEF InUse, Live
<1> HIDE DEF h2
<1>7. Sound(h2, k, r) /\ Live(h2) = Live(h) /\ Refs(h2) = Refs(h)
  BY <1>5, SoundSame
<1>8. Lending(h2, f)
  BY <1>5, <1>7 DEF Lending
<1> QED
  BY <1>2, <1>4, <1>6, <1>7, <1>8 DEF h2

LEMMA Became ==
    ASSUME NEW h, NEW k, NEW r, Sound(h, k, r), Lending(h, lent), Becomes(h), held' = r
    PROVE  IInv' /\ lists' = k /\ InUse' = Live(h)
<1> DEFINE f == Forgot(h, lent)
<1>1. Memory(h) /\ lent' = f
  BY DEF Becomes, Forgot
<1>2. Lending(h, f)
  BY LendingForgot
<1> HIDE DEF f
<1>3. /\ lists' = k /\ InUse' = Live(h)
      /\ Sound(Heap(0)', k, r) /\ Lending(Heap(0)', f)
  BY <1>1, <1>2, Stored
<1>4. Sound(Heap(0)', lists', held') /\ Lending(Heap(0)', lent')
  BY <1>1, <1>3
<1> QED
  BY <1>3, <1>4 DEF IInv

(* The arrays and objects that may be changed are shared by no reference.    *)
MayChange(p) == p \in InUse \ Refs(Heap(0)) /\ \A j \in Refs(Heap(0)) : lent[j] # p

LEMMA UnderFacts ==
    ASSUME IInv, NEW i \in Items
    PROVE  Under(i) = Tree(lists, i) /\ i \in Under(i)
<1>1. lists \in [Items -> Seq(Items)]
  BY SoundFacts DEF IInv
<1> QED
  BY <1>1, UnderIsTree, TreeHasRoot

LEMMA ReferencesAre ==
    ASSUME IInv
    PROVE  References = Refs(Heap(0)) /\ \A j \in References : lent[j] \in InUse
<1>1. Refs(Heap(0)) \subseteq Live(Heap(0))
  BY RefsLive DEF IInv
<1>2. References = Refs(Heap(0))
  BY <1>1 DEF References, Refs, Live, Heap, Alive
<1> QED
  BY <1>2 DEF IInv, Lending, InUse

LEMMA OwnersMayChange ==
    ASSUME IInv, NEW type \in {"Array", "Object"}, NEW p \in Owners(type)
    PROVE  MayChange(p) /\ p \in Items
<1>1. p \in Items /\ at[p].type = type /\ ~at[p].isRef
      /\ \A j \in References : p \notin Under(lent[j])
  BY DEF Owners
<1>2. p \in InUse \ Refs(Heap(0))
  BY <1>1 DEF InUse, Live, Refs, Heap
<1>3. InUse \subseteq Items
  BY DEF InUse, Live
<1>4. \A j \in References : lent[j] \in Items /\ lent[j] \in Under(lent[j])
  BY <1>3, ReferencesAre, UnderFacts
<1>5. \A j \in Refs(Heap(0)) : lent[j] # p
  BY <1>1, <1>4, ReferencesAre
<1> QED
  BY <1>1, <1>2, <1>5 DEF MayChange

(* What may be freed is shared by no reference that stays.                   *)
LEMMA FreeNotLent ==
    ASSUME IInv, NEW i \in Items, MayFree(i)
    PROVE  \A j \in Refs(Heap(0)) \ Tree(lists, i) : lent[j] \notin Tree(lists, i)
<1>1. Under(i) = Tree(lists, i) /\ InUse \subseteq Items
  BY UnderFacts DEF InUse, Live
<1> SUFFICES ASSUME NEW j \in Refs(Heap(0)) \ Tree(lists, i)
             PROVE  lent[j] \notin Tree(lists, i)
  OBVIOUS
<1>2. j \in References \ Under(i) /\ lent[j] \in Items
  BY <1>1, ReferencesAre
<1>3. Under(i) \cap Under(lent[j]) = {}
  BY <1>2 DEF MayFree
<1>4. lent[j] \in Under(lent[j])
  BY <1>2, UnderFacts
<1> QED
  BY <1>1, <1>3, <1>4

LEMMA HeldFacts ==
    ASSUME IInv, NEW i \in held
    PROVE  i \in InUse /\ i \in Items /\ Tree(lists, i) \subseteq InUse
<1>1. held \subseteq InUse /\ InUse \subseteq Items /\ IsForest(InUse, lists, held)
  BY SoundFacts DEF IInv, InUse
<1> QED
  BY <1>1, TreeLive

-----------------------------------------------------------------------------
(* One lemma for each way in which a call changes the lists.                 *)
LEMMA ItemsFinite == IsFiniteSet(Items)
BY TreesAssumption

LEMMA AddKeeps ==
    ASSUME IInv, NEW h, Still(h), NEW p, MayChange(p), NEW i \in held,
           p \notin Tree(lists, i), Put(cJSON_AddItemToArray(h, p, i), i)
    PROVE  Keeps
<1> DEFINE h2 == cJSON_AddItemToArray(h, p, i)
           k2 == [lists EXCEPT ![p] = Inserted(@, Len(@) + 1, i)]
           r2 == held \ {i}
           c  == Len(lists[p]) + 1
<1>1. /\ Sound(h, lists, held) /\ Lending(h, lent)
      /\ Live(h) = InUse /\ Refs(h) = Refs(Heap(0))
  BY StillFacts
<1>2. p \in Live(h) /\ p \notin Refs(h) /\ \A j \in Refs(h) : lent[j] # p
  BY <1>1 DEF MayChange
<1>3. /\ Sound(h2, k2, r2) /\ Relinked(h, lists, h2, k2, p)
      /\ Live(h2) = Live(h) /\ Refs(h2) = Refs(h)
  BY <1>1, <1>2, ItemsFinite, SoundAdd
<1>4. Live(h) \subseteq Items /\ lists \in [Items -> Seq(Items)]
  BY <1>1, SoundFacts
<1>5. c \in 1..(Len(lists[p]) + 1)
  BY <1>2, <1>4, LenProperties
<1> HIDE DEF h2, k2, r2
<1>6. Lending(h2, lent)
  BY <1>1, <1>2, <1>3, <1>4, LendingRelinked
<1>7. Becomes(h2) /\ held' = r2
  BY DEF Put, h2, r2
<1>8. IInv' /\ lists' = k2 /\ InUse' = Live(h2)
  BY <1>3, <1>6, <1>7, Became
<1>9. InUse' = InUse /\ p \in InUse /\ held' = held \ {i}
      /\ lists' = [lists EXCEPT ![p] = Inserted(@, c, i)]
  BY <1>1, <1>2, <1>3, <1>7, <1>8 DEF k2, r2
<1> HIDE DEF c
<1>10. Forest!Next
  BY <1>5, <1>9, InsertStep
<1> QED
  BY <1>8, <1>10 DEF Keeps

LEMMA InsertKeeps ==
    ASSUME IInv, NEW h, Still(h), NEW p, MayChange(p), NEW i \in held,
           p \notin Tree(lists, i), NEW which \in Nat,
           Put(cJSON_InsertItemInArray(h, p, which, i), i)
    PROVE  Keeps
<1> DEFINE h2 == cJSON_InsertItemInArray(h, p, which, i)
           c  == IF which < Len(lists[p]) THEN which + 1 ELSE Len(lists[p]) + 1
           k2 == [lists EXCEPT ![p] = Inserted(@, c, i)]
           r2 == held \ {i}
<1>1. /\ Sound(h, lists, held) /\ Lending(h, lent)
      /\ Live(h) = InUse /\ Refs(h) = Refs(Heap(0))
  BY StillFacts
<1>2. p \in Live(h) /\ p \notin Refs(h) /\ \A j \in Refs(h) : lent[j] # p
  BY <1>1 DEF MayChange
<1>3. /\ c \in 1..(Len(lists[p]) + 1)
      /\ Sound(h2, k2, r2) /\ Relinked(h, lists, h2, k2, p)
      /\ Live(h2) = Live(h) /\ Refs(h2) = Refs(h)
  BY <1>1, <1>2, ItemsFinite, SoundInsert
<1>4. Live(h) \subseteq Items
  BY <1>1, SoundFacts
<1> HIDE DEF h2, k2, r2, c
<1>5. Lending(h2, lent)
  BY <1>1, <1>2, <1>3, <1>4, LendingRelinked
<1>6. Becomes(h2) /\ held' = r2
  BY DEF Put, h2, r2
<1>7. IInv' /\ lists' = k2 /\ InUse' = Live(h2)
  BY <1>3, <1>5, <1>6, Became
<1>8. InUse' = InUse /\ p \in InUse /\ held' = held \ {i}
      /\ lists' = [lists EXCEPT ![p] = Inserted(@, c, i)]
  BY <1>1, <1>2, <1>3, <1>6, <1>7 DEF k2, r2
<1>9. Forest!Next
  BY <1>3, <1>8, InsertStep
<1> QED
  BY <1>7, <1>9 DEF Keeps

LEMMA DetachKeeps ==
    ASSUME IInv, NEW h, Still(h), NEW p, MayChange(p), NEW c \in 1..Len(lists[p]),
           Becomes(cJSON_DetachItemViaPointer(h, p, lists[p][c])),
           held' = held \cup {lists[p][c]}
    PROVE  Keeps
<1> DEFINE h2 == cJSON_DetachItemViaPointer(h, p, lists[p][c])
           k2 == [lists EXCEPT ![p] = Without(@, c)]
           r2 == held \cup {lists[p][c]}
<1>1. /\ Sound(h, lists, held) /\ Lending(h, lent)
      /\ Live(h) = InUse /\ Refs(h) = Refs(Heap(0))
  BY StillFacts
<1>2. p \in Live(h) /\ p \notin Refs(h) /\ \A j \in Refs(h) : lent[j] # p
  BY <1>1 DEF MayChange
<1>3. /\ Sound(h2, k2, r2) /\ Relinked(h, lists, h2, k2, p)
      /\ Live(h2) = Live(h) /\ Refs(h2) = Refs(h)
  BY <1>1, <1>2, SoundDetach
<1>4. Live(h) \subseteq Items
  BY <1>1, SoundFacts
<1>5. Becomes(h2) /\ held' = r2
  OBVIOUS
<1> HIDE DEF h2, k2, r2
<1>6. Lending(h2, lent)
  BY <1>1, <1>2, <1>3, <1>4, LendingRelinked
<1>7. IInv' /\ lists' = k2 /\ InUse' = Live(h2)
  BY <1>3, <1>5, <1>6, Became
<1>8. InUse' = InUse /\ p \in InUse
      /\ lists' = [lists EXCEPT ![p] = Without(@, c)]
  BY <1>1, <1>2, <1>3, <1>7 DEF k2
<1>9. Forest!Next
  BY <1>8, DetachStep
<1> QED
  BY <1>7, <1>9 DEF Keeps

LEMMA DeleteKeeps ==
    ASSUME IInv, NEW h, Still(h), NEW i \in held, MayFree(i),
           Becomes(cJSON_Delete(h, i)), held' = held \ {i}
    PROVE  Keeps
<1> DEFINE h2 == cJSON_Delete(h, i)
           G  == Tree(lists, i)
           k2 == Pruned(lists, G)
           r2 == held \ {i}
<1>1. /\ Sound(h, lists, held) /\ Lending(h, lent)
      /\ Live(h) = InUse /\ Refs(h) = Refs(Heap(0)) /\ i \in Items
  BY StillFacts, HeldFacts
<1>2. \A j \in Refs(h) \ G : lent[j] \notin G
  BY <1>1, FreeNotLent
<1>3. /\ Sound(h2, k2, r2) /\ Live(h2) = Live(h) \ G
      /\ \A j \in Items : h2.at[j] = IF j \in G THEN Freed ELSE h.at[j]
  BY <1>1, ItemsFinite, DeleteImplemented
<1>4. Becomes(h2) /\ held' = r2
  OBVIOUS
<1> HIDE DEF h2, k2, r2, G
<1>5. Lending(h2, lent)
  BY <1>1, <1>2, <1>3, LendingDeleted
<1>6. IInv' /\ lists' = k2 /\ InUse' = Live(h2)
  BY <1>3, <1>4, <1>5, Became
<1>7. InUse' = InUse \ Tree(lists, i) /\ held' = held \ {i}
      /\ lists' = Pruned(lists, Tree(lists, i))
  BY <1>1, <1>3, <1>4, <1>6 DEF k2, r2, G
<1>8. Forest!Next
  BY <1>7, DeleteStepIs
<1> QED
  BY <1>6, <1>8 DEF Keeps

(* What is unlinked from the list of p has the tree that it had there.       *)
LEMMA UnlinkedTree ==
    ASSUME NEW h, NEW k, NEW r, Sound(h, k, r), NEW p \in Live(h),
           NEW c \in 1..Len(k[p]),
           NEW k2 \in [Items -> Seq(Items)], \A j \in Items : j # p => k2[j] = k[j]
    PROVE  /\ Tree(k2, k[p][c]) = Tree(k, k[p][c]) /\ k[p][c] \in Items
           /\ k[p][c] \notin r
<1> DEFINE x == k[p][c]
<1>1. /\ IsForest(Live(h), k, r) /\ k \in [Items -> Seq(Items)] /\ p \in Items
      /\ \A i \in r : NoChild(k, i)
  BY SoundFacts
<1>2. x \in Elements(k[p])
  BY DEF Elements
<1>3. x \in Items
  BY <1>1, <1>2, ElementsAreItems
<1>4. x \notin r
  BY <1>1, <1>2 DEF NoChild
<1> HIDE DEF x
<1>5. p \notin Tree(k, x)
  BY <1>1, <1>2, ParentOutside
<1>6. Tree(k2, x) = Tree(k, x)
  BY <1>1, <1>3, <1>5, TreeUntouched
<1> QED
  BY <1>3, <1>4, <1>6 DEF x

(* A tree is freed and no reference that stays shares anything of it.        *)
TreeFreed(h, k, r, i, h2) ==
    /\ Sound(h2, Pruned(k, Tree(k, i)), r \ {i})
    /\ Live(h2) = Live(h) \ Tree(k, i)
    /\ \A j \in Items : h2.at[j] = IF j \in Tree(k, i) THEN Freed ELSE h.at[j]

NoneLent(h, f, G) == \A j \in Refs(h) \ G : f[j] \notin G

LEMMA DeleteFrees ==
    ASSUME NEW h, NEW k, NEW r, Sound(h, k, r), NEW i \in r
    PROVE  TreeFreed(h, k, r, i, cJSON_Delete(h, i))
BY ItemsFinite, DeleteImplemented DEF TreeFreed

LEMMA FreedLending ==
    ASSUME NEW h, NEW k, NEW r, Sound(h, k, r), NEW f, Lending(h, f), NEW i, NEW h2,
           TreeFreed(h, k, r, i, h2), NoneLent(h, f, Tree(k, i))
    PROVE  Lending(h2, f)
<1> DEFINE G == Tree(k, i)
<1>1. /\ Live(h2) = Live(h) \ G
      /\ \A j \in Items : h2.at[j] = IF j \in G THEN Freed ELSE h.at[j]
      /\ \A j \in Refs(h) \ G : f[j] \notin G
  BY DEF TreeFreed, NoneLent
<1> HIDE DEF G
<1> QED
  BY <1>1, LendingDeleted

(* A new tree beside those that were there. *)
Joins(l, k, r, l2, k2, i) ==
    /\ IsForest(l, k, r) /\ IsForest(l2, k2, r \cup {i})
    /\ l \subseteq l2 /\ i \notin l /\ \A j \in l : k2[j] = k[j]

LEMMA JoinsNew ==
    ASSUME NEW l, NEW k, NEW r, NEW l2, NEW k2, NEW i, Joins(l, k, r, l2, k2, i)
    PROVE  /\ IsNewTree(l2 \ l, k2, i)
           /\ \A j \in Items \ (l2 \ l) : k2[j] = k[j]
BY NewTreeMade DEF Joins

LEMMA DeleteFromKeeps ==
    ASSUME IInv, NEW h, Still(h), NEW p, MayChange(p), NEW c \in 1..Len(lists[p]),
           NEW x, x = lists[p][c], MayFree(x),
           Becomes(cJSON_Delete(cJSON_DetachItemViaPointer(h, p, x), x)),
           UNCHANGED held
    PROVE  Keeps
<1> DEFINE h1 == cJSON_DetachItemViaPointer(h, p, x)
           k1 == [lists EXCEPT ![p] = Without(@, c)]
           r1 == held \cup {x}
           h2 == cJSON_Delete(h1, x)
           G  == Tree(k1, x)
           k2 == Pruned(k1, G)
<1>1. /\ Sound(h, lists, held) /\ Lending(h, lent)
      /\ Live(h) = InUse /\ Refs(h) = Refs(Heap(0))
  BY StillFacts
<1>2. p \in Live(h) /\ p \notin Refs(h) /\ \A j \in Refs(h) : lent[j] # p
  BY <1>1 DEF MayChange
<1>3. /\ Sound(h1, k1, r1) /\ Relinked(h, lists, h1, k1, p)
      /\ Live(h1) = Live(h) /\ Refs(h1) = Refs(h)
  <2> DEFINE g == cJSON_DetachItemViaPointer(h, p, lists[p][c])
  <2>1. Sound(h, lists, held) /\ p \in Live(h)
    BY <1>1, <1>2
  <2>2. /\ Sound(g, k1, held \cup {lists[p][c]}) /\ Relinked(h, lists, g, k1, p)
        /\ Live(g) = Live(h) /\ Refs(g) = Refs(h)
    BY <2>1, SoundDetach
  <2>3. h1 = g /\ r1 = held \cup {lists[p][c]}
    OBVIOUS
  <2> HIDE DEF g, h1, k1, r1
  <2> QED
    BY <2>2, <2>3
<1>4. Live(h) \subseteq Items
  BY <1>1, SoundFacts
<1>5. Becomes(h2) /\ x \in r1
  OBVIOUS
<1>6. k1 = [lists EXCEPT ![p] = Without(@, c)] /\ r1 = held \cup {x}
  OBVIOUS
<1> HIDE DEF h1, k1, r1
<1>7. Lending(h1, lent)
  BY <1>1, <1>2, <1>3, <1>4, LendingRelinked
<1>8. k1 \in [Items -> Seq(Items)] /\ \A j \in Items : j # p => k1[j] = lists[j]
  BY <1>3, SoundFacts DEF Relinked
<1>9. G = Tree(lists, x) /\ x \in Items /\ x \notin held
  BY <1>1, <1>2, <1>8, UnlinkedTree
<1>10. \A j \in Refs(h1) \ G : lent[j] \notin G
  BY <1>1, <1>3, <1>9, FreeNotLent
<1>19. TreeFreed(h1, k1, r1, x, h2)
  BY <1>3, <1>5, DeleteFrees
<1>20. NoneLent(h1, lent, Tree(k1, x))
  BY <1>10 DEF NoneLent
<1> HIDE DEF h2
<1>13. Lending(h2, lent)
  BY <1>3, <1>7, <1>19, <1>20, FreedLending
<1>11. Sound(h2, k2, r1 \ {x}) /\ Live(h2) = Live(h1) \ G
  BY <1>19 DEF TreeFreed
<1>12. G = Tree(k1, lists[p][c]) /\ k2 = Pruned(k1, G)
  OBVIOUS
<1> HIDE DEF k2, G
<1> DEFINE r2 == r1 \ {x}
<1>14. held' = r2
  BY <1>6, <1>9
<1> HIDE DEF r2
<1>15. Sound(h2, k2, r2)
  BY <1>11 DEF r2
<1>16. IInv' /\ lists' = k2 /\ InUse' = Live(h2)
  BY <1>5, <1>13, <1>14, <1>15, Became
<1>17. InUse' = InUse \ G /\ lists' = Pruned(k1, G) /\ p \in InUse
  BY <1>1, <1>2, <1>3, <1>11, <1>12, <1>16
<1>18. Forest!Next
  BY <1>6, <1>12, <1>17, DeleteFromStep
<1> QED
  BY <1>16, <1>18 DEF Keeps

LEMMA ReplaceKeeps ==
    ASSUME IInv, NEW h, Still(h), NEW p, MayChange(p), NEW c \in 1..Len(lists[p]),
           NEW x, x = lists[p][c], MayFree(x),
           NEW i \in held, p \notin Tree(lists, i),
           Put(cJSON_ReplaceItemViaPointer(h, p, x, i), i)
    PROVE  Keeps
<1> DEFINE h1 == Replaced(h, p, x, i)
           k1 == [lists EXCEPT ![p] = Inserted(Without(@, c), c, i)]
           r1 == (held \ {i}) \cup {x}
           h2 == cJSON_Delete(h1, x)
           G  == Tree(k1, x)
           k2 == Pruned(k1, G)
<1>1. /\ Sound(h, lists, held) /\ Lending(h, lent)
      /\ Live(h) = InUse /\ Refs(h) = Refs(Heap(0))
  BY StillFacts
<1>2. p \in Live(h) /\ p \notin Refs(h) /\ \A j \in Refs(h) : lent[j] # p
  BY <1>1 DEF MayChange
<1>3. /\ Sound(h1, k1, r1) /\ Relinked(h, lists, h1, k1, p)
      /\ Live(h1) = Live(h) /\ Refs(h1) = Refs(h)
  <2>1. Swapped(h, lists, held, p, c, i, h1)
    BY <1>1, <1>2, SoundReplace
  <2> HIDE DEF h1
  <2> QED
    BY <2>1 DEF Swapped
<1>4. Live(h) \subseteq Items
  BY <1>1, SoundFacts
<1>5. Becomes(h2) /\ held' = held \ {i} /\ x \in r1
  BY DEF Put, cJSON_ReplaceItemViaPointer
<1>6. /\ k1 = [lists EXCEPT ![p] = Inserted(Without(@, c), c, i)]
      /\ r1 = (held \ {i}) \cup {x}
  OBVIOUS
<1> HIDE DEF h1, k1, r1
<1>7. Lending(h1, lent)
  BY <1>1, <1>2, <1>3, <1>4, LendingRelinked
<1>8. k1 \in [Items -> Seq(Items)] /\ \A j \in Items : j # p => k1[j] = lists[j]
  BY <1>3, SoundFacts DEF Relinked
<1>9. G = Tree(lists, x) /\ x \in Items /\ x \notin held
  BY <1>1, <1>2, <1>8, UnlinkedTree
<1>10. \A j \in Refs(h1) \ G : lent[j] \notin G
  BY <1>1, <1>3, <1>9, FreeNotLent
<1>19. TreeFreed(h1, k1, r1, x, h2)
  BY <1>3, <1>5, DeleteFrees
<1>20. NoneLent(h1, lent, Tree(k1, x))
  BY <1>10 DEF NoneLent
<1> HIDE DEF h2
<1>13. Lending(h2, lent)
  BY <1>3, <1>7, <1>19, <1>20, FreedLending
<1>11. Sound(h2, k2, r1 \ {x}) /\ Live(h2) = Live(h1) \ G
  BY <1>19 DEF TreeFreed
<1>12. G = Tree(k1, lists[p][c]) /\ k2 = Pruned(k1, G)
  OBVIOUS
<1> HIDE DEF k2, G
<1> DEFINE r2 == r1 \ {x}
<1>14. held' = r2
  BY <1>5, <1>6, <1>9
<1> HIDE DEF r2
<1>15. Sound(h2, k2, r2)
  BY <1>11 DEF r2
<1>16. IInv' /\ lists' = k2 /\ InUse' = Live(h2)
  BY <1>5, <1>13, <1>14, <1>15, Became
<1>17. InUse' = InUse \ G /\ lists' = Pruned(k1, G) /\ p \in InUse
  BY <1>1, <1>2, <1>3, <1>11, <1>12, <1>16
<1>18. Forest!Next
  BY <1>5, <1>6, <1>12, <1>17, ReplaceStep
<1> QED
  BY <1>16, <1>18 DEF Keeps

LEMMA ReturnsKeeps ==
    ASSUME IInv, NEW h, Still(h), NEW res, Makes(h, lists, held, res), Returns(res)
    PROVE  Keeps
<1> DEFINE x  == res.item
           h2 == res.h
<1>1. Sound(h, lists, held) /\ Lending(h, lent) /\ Live(h) = InUse
  BY StillFacts
<1>2. Becomes(h2) /\ held' = held \cup ({x} \ {NULL})
  BY DEF Returns
<1>3. CASE x = NULL
  <2>1. h2.at = h.at /\ Sound(h2, lists, held)
    BY <1>3 DEF Makes
  <2>2. Live(h2) = Live(h) /\ Refs(h2) = Refs(h)
    BY <2>1 DEF Live, Refs
  <2> HIDE DEF h2, x
  <2>3. Lending(h2, lent)
    BY <1>1, <2>1, <2>2 DEF Lending
  <2>4. held' = held
    BY <1>2, <1>3
  <2>5. IInv' /\ lists' = lists /\ InUse' = Live(h2)
    BY <1>2, <2>1, <2>3, <2>4, Became
  <2>6. UNCHANGED Forest!vars
    <3>1. {j \in Items : Alive(j)}' = {j \in Items : Alive(j)}
      BY <1>1, <2>2, <2>5, InUseIs, InUseNext
    <3> QED
      BY <2>4, <2>5, <3>1 DEF Forest!vars
  <2> QED
    BY <2>5, <2>6 DEF Keeps
<1>4. CASE x # NULL
  <2>1. PICK k2 : Extends(h, lists, held, h2, k2, {x})
    BY <1>4 DEF Makes
  <2> HIDE DEF h2, x
  <2> DEFINE r2 == held \cup {x}
             N  == Live(h2) \ Live(h)
  <2>2. /\ Sound(h2, k2, r2) /\ {x} \cap Live(h) = {} /\ Live(h) \subseteq Live(h2)
        /\ \A j \in Live(h) : k2[j] = lists[j]
    BY <2>1 DEF Extends
  <2>3. Lending(h2, lent)
    BY <1>1, <2>1, LendingExtended
  <2>4. held' = r2
    BY <1>2, <1>4
  <2>5. x \in r2
    OBVIOUS
  <2>11. r2 = held \cup {x}
    OBVIOUS
  <2> HIDE DEF r2, N
  <2>6. IInv' /\ lists' = k2 /\ InUse' = Live(h2)
    BY <1>2, <2>2, <2>3, <2>4, Became
  <2>7. /\ IsForest(Live(h), lists, held) /\ IsForest(Live(h2), k2, r2)
        /\ r2 \subseteq Live(h2) /\ Live(h2) \subseteq Items
        /\ k2 \in [Items -> Seq(Items)]
    BY <1>1, <2>2, SoundFacts
  <2>8. x \in N /\ N \in SUBSET Items /\ N \cap InUse = {} /\ InUse' = InUse \cup N
    BY <1>1, <2>2, <2>5, <2>6, <2>7 DEF N
  <2>9. IsNewTree(N, k2, x) /\ \A j \in Items \ N : k2[j] = lists[j]
    <3> DEFINE l  == Live(h)
               l2 == Live(h2)
    <3>1. Joins(l, lists, held, l2, k2, x)
      BY <2>2, <2>7, <2>11 DEF Joins
    <3>2. N = l2 \ l
      BY DEF N
    <3> HIDE DEF l, l2
    <3>3. /\ IsNewTree(l2 \ l, k2, x)
          /\ \A j \in Items \ (l2 \ l) : k2[j] = lists[j]
      BY <3>1, JoinsNew
    <3> QED
      BY <3>2, <3>3
  <2>10. Forest!Next
    BY <2>4, <2>6, <2>7, <2>8, <2>9, <2>11, CreateStep
  <2> QED
    BY <2>6, <2>10 DEF Keeps
<1> QED
  BY <1>3, <1>4

(* The reference x to i, whose name may have been written, is put into a list. *)
LEMMA SharesKeeps ==
    ASSUME IInv, NEW a \in Int, NEW i \in InUse, NEW x, NEW h1,
           RefersTo(Heap(a), lists, held, lent, i, x, h1),
           NEW f, f = [lent EXCEPT ![x] = SharedBy(Heap(a), lent, i)],
           NEW h2, Alike(h1, lists, held \cup {x}, f, h2),
           NEW p, MayChange(p), p \notin Under(i),
           Shares(cJSON_AddItemToArray(h2, p, x), i, x)
    PROVE  Keeps
<1> DEFINE h  == Heap(a)
           r1 == held \cup {x}
           h3 == cJSON_AddItemToArray(h2, p, x)
           k3 == [lists EXCEPT ![p] = Inserted(@, Len(@) + 1, x)]
           r3 == r1 \ {x}
<1>1. /\ Sound(h, lists, held) /\ Lending(h, lent)
      /\ Live(h) = InUse /\ Refs(h) = Refs(Heap(0))
  BY HeapStill, StillFacts
<1>2. /\ x \in Items \ InUse /\ Live(h1) = InUse \cup {x} /\ Refs(h1) = Refs(h) \cup {x}
  BY <1>1 DEF RefersTo
<1>3. /\ Sound(h2, lists, r1) /\ Lending(h2, f)
      /\ Live(h2) = InUse \cup {x} /\ Refs(h2) = Refs(h) \cup {x}
  BY <1>2 DEF Alike
<1>4. /\ InUse \subseteq Items /\ lists[x] = <<>> /\ held \subseteq InUse
      /\ lists \in [Items -> Seq(Items)]
  BY <1>1, <1>2, SoundFacts
<1>5. p \in InUse /\ p \notin Refs(h) /\ \A j \in Refs(h) : lent[j] # p
  BY <1>1 DEF MayChange
<1>6. p \in Live(h2) /\ p \notin Refs(h2) /\ p # x /\ x \in r1
  BY <1>2, <1>3, <1>5
<1>7. p \notin Tree(lists, x)
  BY <1>2, <1>4, <1>6, TreeAlone
<1>8. p # i
  BY <1>4, UnderFacts
<1>9. r3 = held /\ held' = held
  BY <1>2, <1>4 DEF Shares
<1> HIDE DEF r1
<1>10. /\ Sound(h3, k3, r3) /\ Relinked(h2, lists, h3, k3, p)
       /\ Live(h3) = Live(h2) /\ Refs(h3) = Refs(h2)
  BY <1>3, <1>6, <1>7, ItemsFinite, SoundAdd
<1>11. Memory(h3) /\ lent' = [lent EXCEPT ![x] = IF at[i].isRef THEN lent[i] ELSE i]
  BY DEF Shares
<1>12. k3 = [lists EXCEPT ![p] = Inserted(@, Len(@) + 1, x)]
  OBVIOUS
<1> HIDE DEF h3, k3, r3
<1>13. h.at = at
  BY DEF Heap
<1>14. lent' = f
  BY <1>11, <1>13 DEF SharedBy
<1>15. lent \in [Items -> Pointers]
  BY <1>1 DEF Lending
<1>16. \A j \in Refs(h2) : f[j] # p
  <2>1. SharedBy(h, lent, i) # p
    <3>1. h.at[i].isRef => i \in Refs(h)
      BY <1>4 DEF Refs
    <3> QED
      BY <1>5, <1>8, <3>1 DEF SharedBy
  <2>2. f[x] = SharedBy(h, lent, i) /\ \A j \in Items : j # x => f[j] = lent[j]
    BY <1>2, <1>15
  <2>3. Refs(h) \subseteq Items
    BY <1>1, RefsLive
  <2> HIDE DEF h
  <2> QED
    BY <1>3, <1>5, <2>1, <2>2, <2>3
<1> HIDE DEF h
<1>17. Lending(h3, f)
  <2>1. Live(h2) \subseteq Items
    BY <1>2, <1>3, <1>4
  <2> QED
    BY <1>3, <1>6, <1>10, <1>16, <2>1, LendingRelinked
<1>18. /\ lists' = k3 /\ InUse' = Live(h3)
       /\ Sound(Heap(0)', k3, r3) /\ Lending(Heap(0)', f)
  BY <1>10, <1>11, <1>17, Stored
<1>19. IInv'
  BY <1>9, <1>14, <1>18 DEF IInv
<1>20. InUse' = InUse \cup {x}
  BY <1>3, <1>10, <1>18
<1>21. Forest!Next
  BY <1>2, <1>5, <1>9, <1>12, <1>18, <1>20, InsertNewStep
<1> QED
  BY <1>19, <1>21 DEF Keeps

-----------------------------------------------------------------------------
(* The actions.                                                             *)
LEMMA PutApart ==
    ASSUME IInv, NEW p, NEW i, MayPut(p, i)
    PROVE  i \in held /\ i \in Items /\ i \in InUse /\ p \notin Tree(lists, i)
BY HeldFacts, UnderFacts DEF MayPut

(* What may be asked for after a call may be asked for in any heap like it.  *)
LEMMA StillLike ==
    ASSUME IInv, NEW a \in Int, NEW h, Alike(Heap(a), lists, held, lent, h)
    PROVE  Still(h)
<1>1. Live(Heap(a)) = Live(Heap(0)) /\ Refs(Heap(a)) = Refs(Heap(0))
  BY HeapStill, StillFacts DEF InUse
<1> QED
  BY <1>1 DEF Alike, Still

LEMMA NamesAre ==
    /\ Names \subseteq AllNames /\ ConstNames \subseteq AllNames
    /\ NULL \notin Names /\ NULL \notin ConstNames
    /\ Types \subseteq Kinds \ {"Freed"}
BY TreesAssumption DEF AllNames, Kinds

LEMMA NamedStill ==
    ASSUME IInv, NEW i \in InUse, NEW name \in Names, NEW a \in Int
    PROVE  Still(WithCopiedName(Heap(a), i, name))
<1> DEFINE h == Heap(a)
<1>1. Sound(h, lists, held) /\ Lending(h, lent) /\ i \in Live(h)
  BY HeapStill, StillFacts
<1>2. name \in AllNames /\ name # NULL
  BY NamesAre
<1> HIDE DEF h
<1>3. Alike(h, lists, held, lent, WithCopiedName(h, i, name))
  BY <1>1, <1>2, ItemsFinite, CopiedNameSound
<1> QED
  BY <1>3, StillLike DEF h

LEMMA ConstNamedStill ==
    ASSUME IInv, NEW i \in InUse, NEW name \in ConstNames
    PROVE  Still(Renamed(Heap(0), i, name, TRUE))
<1> DEFINE h == Heap(0)
<1>1. Sound(h, lists, held) /\ Lending(h, lent) /\ i \in Live(h)
  BY HeapStill, StillFacts
<1>2. name \in AllNames /\ TRUE \in BOOLEAN
  BY NamesAre
<1>3. h = IF name = NULL \/ TRUE THEN h ELSE Taken(h)
  OBVIOUS
<1> HIDE DEF h
<1>4. Alike(h, lists, held, lent, Renamed(h, i, name, TRUE))
  BY <1>1, <1>2, <1>3, ItemsFinite, RenamedSound
<1> QED
  BY <1>4 DEF Still, h

LEMMA CreateItemKeeps ==
    ASSUME IInv, NEW a \in Int, CreateItem(a)
    PROVE  Keeps
<1> DEFINE h == Heap(a)
<1>1. Still(h) /\ Sound(h, lists, held)
  BY HeapStill, StillFacts
<1>2. CASE \E type \in Types : Returns(Create(h, type))
  <2>1. PICK type \in Types : Returns(Create(h, type))
    BY <1>2
  <2>2. type \in Kinds \ {"Freed"}
    BY NamesAre
  <2> HIDE DEF h
  <2>3. MakesOne(h, lists, held, Create(h, type))
    BY <1>1, <2>2, ItemsFinite, ItemCreated
  <2>4. Makes(h, lists, held, Create(h, type))
    BY <1>1, <2>3, ItemsFinite, OneIsTree
  <2> QED
    BY <1>1, <2>1, <2>4, ReturnsKeeps
<1>3. CASE \E type \in {"True", "String"} \cap Types, count \in 1..2 :
              Returns(CreateArrayOf(h, type, count))
  <2>1. PICK type \in {"True", "String"} \cap Types, count \in 1..2 :
              Returns(CreateArrayOf(h, type, count))
    BY <1>3
  <2>2. type \in Kinds \ {"Freed"} /\ count \in Nat
    BY NamesAre
  <2> HIDE DEF h
  <2>4. Makes(h, lists, held, CreateArrayOf(h, type, count))
    BY <1>1, <2>2, ItemsFinite, ArrayMade
  <2> QED
    BY <1>1, <2>1, <2>4, ReturnsKeeps
<1> QED
  BY <1>2, <1>3 DEF CreateItem

LEMMA DuplicateKeeps ==
    ASSUME IInv, NEW a \in Int, Duplicate(a)
    PROVE  Keeps
<1> DEFINE h == Heap(a)
<1>1. Still(h) /\ Sound(h, lists, held) /\ Lending(h, lent) /\ Live(h) = InUse
  BY HeapStill, StillFacts
<1>2. PICK i \in {i \in Items : Alive(i)}, recurse \in BOOLEAN :
          Returns(cJSON_Duplicate(h, i, recurse))
  BY DEF Duplicate
<1>3. i \in Live(h)
  BY <1>1, <1>2, InUseIs
<1> HIDE DEF h
<1>4. PointersLive(h)
  BY <1>1, LendingPointers
<1>5. Makes(h, lists, held, cJSON_Duplicate(h, i, recurse))
  BY <1>1, <1>3, <1>4, ItemsFinite, DuplicateMade
<1> QED
  BY <1>1, <1>2, <1>5, ReturnsKeeps

LEMMA AddToArrayKeeps ==
    ASSUME IInv, AddItemToArray
    PROVE  Keeps
<1>1. PICK p \in Owners("Array"), i \in held :
          MayPut(p, i) /\ Put(cJSON_AddItemToArray(Heap(0), p, i), i)
  BY DEF AddItemToArray
<1>2. MayChange(p)
  BY OwnersMayChange
<1>3. p \notin Tree(lists, i) /\ Still(Heap(0))
  BY <1>1, PutApart, HeapStill
<1> QED
  BY <1>1, <1>2, <1>3, AddKeeps

LEMMA AddToObjectKeeps ==
    ASSUME IInv, AddItemToObject
    PROVE  Keeps
<1>1. PICK p \in Owners("Object"), i \in held :
        /\ MayPut(p, i)
        /\ \/ \E name \in Names, allocs \in 0..1 :
                 Put(cJSON_AddItemToObject(Heap(allocs), p, name, i), i)
           \/ \E name \in ConstNames :
                 Put(cJSON_AddItemToObjectCS(Heap(0), p, name, i), i)
  BY DEF AddItemToObject
<1>2. MayChange(p)
  BY OwnersMayChange
<1>3. p \notin Tree(lists, i) /\ i \in InUse
  BY <1>1, PutApart
<1>4. CASE \E name \in Names, allocs \in 0..1 :
              Put(cJSON_AddItemToObject(Heap(allocs), p, name, i), i)
  <2>1. PICK name \in Names, allocs \in 0..1 :
              Put(cJSON_AddItemToObject(Heap(allocs), p, name, i), i)
    BY <1>4
  <2> DEFINE h == WithCopiedName(Heap(allocs), i, name)
  <2>2. Still(h)
    BY <1>3, NamedStill
  <2>3. Put(cJSON_AddItemToArray(h, p, i), i)
    BY <2>1 DEF cJSON_AddItemToObject
  <2> HIDE DEF h
  <2> QED
    BY <1>1, <1>2, <1>3, <2>2, <2>3, AddKeeps
<1>5. CASE \E name \in ConstNames :
              Put(cJSON_AddItemToObjectCS(Heap(0), p, name, i), i)
  <2>1. PICK name \in ConstNames :
              Put(cJSON_AddItemToObjectCS(Heap(0), p, name, i), i)
    BY <1>5
  <2> DEFINE h == Renamed(Heap(0), i, name, TRUE)
  <2>2. Still(h)
    BY <1>3, ConstNamedStill
  <2>3. Put(cJSON_AddItemToArray(h, p, i), i)
    BY <2>1 DEF cJSON_AddItemToObjectCS
  <2> HIDE DEF h
  <2> QED
    BY <1>1, <1>2, <1>3, <2>2, <2>3, AddKeeps
<1> QED
  BY <1>1, <1>4, <1>5

LEMMA NamedReference ==
    ASSUME IInv, NEW a \in Int, NEW i \in InUse, NEW x, NEW h1,
           RefersTo(Heap(a), lists, held, lent, i, x, h1), NEW name \in Names,
           NEW f, f = [lent EXCEPT ![x] = SharedBy(Heap(a), lent, i)]
    PROVE  Alike(h1, lists, held \cup {x}, f, WithCopiedName(h1, x, name))
<1>1. /\ Sound(h1, lists, held \cup {x}) /\ Lending(h1, f) /\ x \in Live(h1)
  BY DEF RefersTo
<1>2. name \in AllNames /\ name # NULL
  BY NamesAre
<1> QED
  BY <1>1, <1>2, ItemsFinite, CopiedNameSound

LEMMA AddReferenceKeeps ==
    ASSUME IInv, AddItemReference
    PROVE  Keeps
<1>1. PICK i \in {i \in Items : Alive(i)}, a \in 1..2 :
        LET ref == create_reference(Heap(a), i)
        IN  /\ ref.item # NULL
            /\ \/ \E p \in Owners("Array") \ Under(i) :
                     Shares(cJSON_AddItemToArray(ref.h, p, ref.item), i, ref.item)
               \/ \E p \in Owners("Object") \ Under(i), name \in Names :
                     Shares(cJSON_AddItemToObject(ref.h, p, name, ref.item),
                            i, ref.item)
  BY DEF AddItemReference
<1> DEFINE ref == create_reference(Heap(a), i)
           x == ref.item
           h1 == ref.h
           f == [lent EXCEPT ![x] = SharedBy(Heap(a), lent, i)]
<1>2. i \in InUse /\ a \in Int /\ i \in Live(Heap(a))
      /\ Sound(Heap(a), lists, held) /\ Lending(Heap(a), lent)
  BY <1>1, InUseIs, HeapStill, StillFacts
<1>3. RefersTo(Heap(a), lists, held, lent, i, x, h1)
  <2> DEFINE h == Heap(a)
  <2>1. Sound(h, lists, held) /\ Lending(h, lent) /\ i \in Live(h)
        /\ create_reference(h, i).item # NULL
    BY <1>1, <1>2
  <2> HIDE DEF h
  <2>2. RefersTo(h, lists, held, lent, i, create_reference(h, i).item,
                 create_reference(h, i).h)
    BY <2>1, ItemsFinite, ReferenceMade
  <2> QED
    BY <2>2 DEF h
<1>4. \/ \E p \in Owners("Array") \ Under(i) :
            Shares(cJSON_AddItemToArray(h1, p, x), i, x)
      \/ \E p \in Owners("Object") \ Under(i), name \in Names :
            Shares(cJSON_AddItemToArray(WithCopiedName(h1, x, name), p, x), i, x)
  BY <1>1 DEF cJSON_AddItemToObject
<1>5. f = [lent EXCEPT ![x] = SharedBy(Heap(a), lent, i)]
  OBVIOUS
<1> HIDE DEF x, h1, f, ref
<1>6. CASE \E p \in Owners("Array") \ Under(i) :
              Shares(cJSON_AddItemToArray(h1, p, x), i, x)
  <2>1. PICK p \in Owners("Array") \ Under(i) :
              Shares(cJSON_AddItemToArray(h1, p, x), i, x)
    BY <1>6
  <2>2. MayChange(p)
    BY OwnersMayChange
  <2>3. Alike(h1, lists, held \cup {x}, f, h1)
    BY <1>3, <1>5 DEF RefersTo, Alike
  <2> QED
    BY <1>2, <1>3, <1>5, <2>1, <2>2, <2>3, SharesKeeps
<1>7. CASE \E p \in Owners("Object") \ Under(i), name \in Names :
              Shares(cJSON_AddItemToArray(WithCopiedName(h1, x, name), p, x), i, x)
  <2>1. PICK p \in Owners("Object") \ Under(i), name \in Names :
              Shares(cJSON_AddItemToArray(WithCopiedName(h1, x, name), p, x), i, x)
    BY <1>7
  <2>2. MayChange(p)
    BY OwnersMayChange
  <2> DEFINE h2 == WithCopiedName(h1, x, name)
  <2>3. Alike(h1, lists, held \cup {x}, f, h2)
    BY <1>2, <1>3, <1>5, NamedReference
  <2>4. Shares(cJSON_AddItemToArray(h2, p, x), i, x)
    BY <2>1
  <2> HIDE DEF h2
  <2> QED
    BY <1>2, <1>3, <1>5, <2>1, <2>2, <2>3, <2>4, SharesKeeps
<1> QED
  BY <1>4, <1>6, <1>7

LEMMA InsertInArrayKeeps ==
    ASSUME IInv, InsertItemInArray
    PROVE  Keeps
<1>1. PICK p \in Owners("Array"), which \in Indices, i \in held :
        MayPut(p, i) /\ Put(cJSON_InsertItemInArray(Heap(0), p, which, i), i)
  BY DEF InsertItemInArray
<1>2. MayChange(p) /\ which \in Nat
  BY OwnersMayChange, TreesAssumption
<1>3. p \notin Tree(lists, i) /\ Still(Heap(0))
  BY <1>1, PutApart, HeapStill
<1> QED
  BY <1>1, <1>2, <1>3, InsertKeeps

(* What is found among the members is one of them.                          *)
LEMMA FoundByIndex ==
    ASSUME IInv, NEW p, MayChange(p), NEW which \in Nat,
           get_array_item(at, p, which) # NULL
    PROVE  \E c \in 1..Len(lists[p]) : get_array_item(at, p, which) = lists[p][c]
<1> DEFINE h == Heap(0)
<1>1. /\ Sound(h, lists, held) /\ h \in Heaps(Kinds, AllNames) /\ Shows(h, lists)
      /\ lists \in [Items -> Seq(Items)] /\ p \in Items /\ p \notin Refs(h)
      /\ h.at = at
  BY SoundFacts DEF IInv, MayChange, InUse, Live, Heap
<1> HIDE DEF h
<1>2. get_array_item(at, p, which) = After(lists[p], which)
  BY <1>1, ItemsFinite, IndexFinds
<1>3. After(lists[p], which) # NULL
  BY <1>2
<1>4. /\ which < Len(lists[p]) /\ After(lists[p], which) = lists[p][which + 1]
      /\ Len(lists[p]) \in Nat
  BY <1>1, <1>3, LenProperties DEF After
<1>5. which + 1 \in 1..Len(lists[p])
  BY <1>4
<1> QED
  BY <1>2, <1>4, <1>5

IsMember(k, p, x) == \E c \in 1..Len(k[p]) : x = k[p][c]

LEMMA SoundFinds ==
    ASSUME IsFiniteSet(Items), NEW h \in Heaps(Kinds, AllNames),
           NEW k, Shows(h, k), NEW p \in Items, p \notin Refs(h),
           NEW name, name # NULL, NEW exact \in BOOLEAN,
           NEW x, x = get_object_item(h.at, p, name, exact), x # NULL
    PROVE  IsMember(k, p, x)
BY MemberFound DEF IsMember

LEMMA FoundByName ==
    ASSUME IInv, NEW p, MayChange(p), NEW name, name # NULL, NEW exact \in BOOLEAN,
           NEW x, x = get_object_item(at, p, name, exact), x # NULL
    PROVE  IsMember(lists, p, x)
<1> DEFINE h == Heap(0)
<1>1. /\ h \in Heaps(Kinds, AllNames) /\ Shows(h, lists)
      /\ p \in Items /\ p \notin Refs(h) /\ h.at = at
  BY SoundFacts DEF IInv, MayChange, InUse, Live, Heap
<1> HIDE DEF h
<1>2. x = get_object_item(h.at, p, name, exact)
  BY <1>1
<1> QED
  BY <1>1, <1>2, ItemsFinite, SoundFinds

LEMMA DetachOrDeleteKeeps ==
    ASSUME IInv, NEW p, MayChange(p), NEW i,
           \E c \in 1..Len(lists[p]) : i = lists[p][c],
           DetachOrDelete(p, i)
    PROVE  Keeps
<1>1. PICK c \in 1..Len(lists[p]) : i = lists[p][c]
  OBVIOUS
<1> DEFINE h == Heap(0)
<1>2. Still(h)
  BY HeapStill
<1>3. \/ Becomes(cJSON_DetachItemViaPointer(h, p, i)) /\ held' = held \cup {i}
      \/ /\ MayFree(i) /\ UNCHANGED held
         /\ Becomes(cJSON_Delete(cJSON_DetachItemViaPointer(h, p, i), i))
  BY DEF DetachOrDelete
<1> HIDE DEF h
<1>4. CASE Becomes(cJSON_DetachItemViaPointer(h, p, i)) /\ held' = held \cup {i}
  <2>1. /\ Becomes(cJSON_DetachItemViaPointer(h, p, lists[p][c]))
        /\ held' = held \cup {lists[p][c]}
    BY <1>1, <1>4
  <2> QED
    BY <1>2, <2>1, DetachKeeps
<1>5. CASE /\ MayFree(i) /\ UNCHANGED held
           /\ Becomes(cJSON_Delete(cJSON_DetachItemViaPointer(h, p, i), i))
  BY <1>1, <1>2, <1>5, DeleteFromKeeps
<1> QED
  BY <1>3, <1>4, <1>5

LEMMA DetachFromArrayKeeps ==
    ASSUME IInv, DetachItemFromArray
    PROVE  Keeps
<1>1. PICK p \in AllOwners, which \in Indices :
          DetachOrDelete(p, get_array_item(at, p, which))
  BY DEF DetachItemFromArray
<1>2. MayChange(p) /\ which \in Nat
  BY OwnersMayChange, TreesAssumption DEF AllOwners
<1>3. get_array_item(at, p, which) # NULL
  BY <1>1 DEF DetachOrDelete
<1>4. \E c \in 1..Len(lists[p]) : get_array_item(at, p, which) = lists[p][c]
  BY <1>2, <1>3, FoundByIndex
<1> QED
  BY <1>1, <1>2, <1>4, DetachOrDeleteKeeps

LEMMA DetachFromObjectKeeps ==
    ASSUME IInv, DetachItemFromObject
    PROVE  Keeps
<1>1. PICK p \in Owners("Object"), name \in Names \cup ConstNames, exact \in BOOLEAN :
          DetachOrDelete(p, get_object_item(at, p, name, exact))
  BY DEF DetachItemFromObject
<1>2. MayChange(p) /\ name # NULL
  BY OwnersMayChange, NamesAre
<1>3. get_object_item(at, p, name, exact) # NULL
  BY <1>1 DEF DetachOrDelete
<1>4. \E c \in 1..Len(lists[p]) : get_object_item(at, p, name, exact) = lists[p][c]
  BY <1>2, <1>3, FoundByName DEF IsMember
<1> QED
  BY <1>1, <1>2, <1>4, DetachOrDeleteKeeps

LEMMA ReplaceAnyKeeps ==
    ASSUME IInv, NEW h, Still(h), NEW p, MayChange(p), NEW i, MayPut(p, i), NEW x,
           \E c \in 1..Len(lists[p]) : x = lists[p][c],
           Replace(h, p, x, i)
    PROVE  Keeps
<1>1. PICK c \in 1..Len(lists[p]) : x = lists[p][c]
  OBVIOUS
<1>2. MayFree(x) /\ Put(cJSON_ReplaceItemViaPointer(h, p, x, i), i)
  BY DEF Replace
<1>3. i \in held /\ p \notin Tree(lists, i)
  BY PutApart
<1> QED
  BY <1>1, <1>2, <1>3, ReplaceKeeps

LEMMA ReplaceInArrayKeeps ==
    ASSUME IInv, ReplaceItemInArray
    PROVE  Keeps
<1>1. PICK p \in Owners("Array"), which \in Indices, i \in held :
          MayPut(p, i) /\ Replace(Heap(0), p, get_array_item(at, p, which), i)
  BY DEF ReplaceItemInArray
<1>2. MayChange(p) /\ which \in Nat /\ Still(Heap(0))
  BY OwnersMayChange, TreesAssumption, HeapStill
<1>3. get_array_item(at, p, which) # NULL
  BY <1>1 DEF Replace
<1>4. \E c \in 1..Len(lists[p]) : get_array_item(at, p, which) = lists[p][c]
  BY <1>2, <1>3, FoundByIndex
<1> QED
  BY <1>1, <1>2, <1>4, ReplaceAnyKeeps

LEMMA ReplaceInObjectKeeps ==
    ASSUME IInv, ReplaceItemInObject
    PROVE  Keeps
<1>1. PICK p \in Owners("Object"), i \in held, name \in Names, exact \in BOOLEAN,
           allocs \in 0..1 :
          /\ MayPut(p, i)
          /\ Replace(WithCopiedName(Heap(allocs), i, name), p,
                     get_object_item(at, p, name, exact), i)
  BY DEF ReplaceItemInObject
<1>2. MayChange(p) /\ name # NULL /\ i \in InUse
  BY <1>1, OwnersMayChange, NamesAre, PutApart
<1> DEFINE h == WithCopiedName(Heap(allocs), i, name)
<1>3. Still(h)
  BY <1>2, NamedStill
<1> HIDE DEF h
<1>4. get_object_item(at, p, name, exact) # NULL
  BY <1>1 DEF Replace
<1>5. \E c \in 1..Len(lists[p]) : get_object_item(at, p, name, exact) = lists[p][c]
  BY <1>2, <1>4, FoundByName DEF IsMember
<1>6. Replace(h, p, get_object_item(at, p, name, exact), i)
  BY <1>1 DEF h
<1> QED
  BY <1>1, <1>2, <1>3, <1>5, <1>6, ReplaceAnyKeeps

LEMMA DeleteItemKeeps ==
    ASSUME IInv, Delete
    PROVE  Keeps
<1>1. PICK i \in held :
          MayFree(i) /\ Becomes(cJSON_Delete(Heap(0), i)) /\ held' = held \ {i}
  BY DEF Delete
<1>2. Still(Heap(0))
  BY HeapStill
<1> QED
  BY <1>1, <1>2, DeleteKeeps

LEMMA NextKeeps ==
    ASSUME IInv, Next
    PROVE  Keeps
<1>1. ASSUME NEW allocs \in Allocs, CreateItem(allocs) \/ Duplicate(allocs)
      PROVE  Keeps
  BY <1>1, TreesAssumption, CreateItemKeeps, DuplicateKeeps
<1> QED
  BY <1>1, AddToArrayKeeps, AddToObjectKeeps, AddReferenceKeeps, InsertInArrayKeeps,
     ReplaceInArrayKeeps, ReplaceInObjectKeeps, DetachFromArrayKeeps,
     DetachFromObjectKeeps, DeleteItemKeeps DEF Next

-----------------------------------------------------------------------------
(* At first no item is in use.                                              *)
LEMMA EmptyShows ==
    ASSUME Init
    PROVE  Heap(0) \in Heaps(Kinds, AllNames) /\ Shows(Heap(0), lists)
<1> DEFINE h == Heap(0)
<1>1. /\ h.at = [i \in Items |-> Freed] /\ h \in Heaps(Kinds, AllNames)
      /\ Freed.isRef = FALSE /\ Freed.next = NULL /\ Freed.prev = NULL
      /\ Freed.child = NULL
  BY FreedIsCell DEF Init, Heap, Heaps, Freed, Struct
<1>2. lists = [i \in Items |-> <<>>] /\ NULL \notin Items
  BY TreesAssumption DEF Init
<1> HIDE DEF h
<1>3. /\ Nexts(h) = [i \in Items |-> NULL] /\ Prevs(h) = [i \in Items |-> NULL]
      /\ Firsts(h) = [i \in Items |-> NULL] /\ Refs(h) = {}
  BY <1>1 DEF Nexts, Prevs, Firsts, Refs
<1>4. \A a \in Items : lists[a] = <<>> /\ Len(lists[a]) = 0 /\ After(lists[a], 0) = NULL
  BY <1>2 DEF After
<1>5. lists \in [Items -> Seq(Items)] /\ Apart(lists)
  BY <1>2, <1>4 DEF Apart
<1>6. Linking(Nexts(h), Prevs(h), Firsts(h), Refs(h), lists)
  BY <1>2, <1>3, <1>4, <1>5 DEF Linking, Pointers
<1> QED
  BY <1>1, <1>6 DEF Shows, h

LEMMA EmptyForest ==
    ASSUME lists = [i \in Items |-> <<>>]
    PROVE  IsForest({}, lists, {})
<1>1. lists \in [Items -> Seq(Items)]
  OBVIOUS
<1>2. \A a \in Items : Len(lists[a]) = 0 /\ Elements(lists[a]) = {} /\ lists[a] = <<>>
  BY DEF Elements
<1> QED
  BY <1>1, <1>2 DEF IsForest, Typed, Apart, NoChild, Inside, Reached

LEMMA InitHolds == Init => IInv
<1> SUFFICES ASSUME Init PROVE IInv
  OBVIOUS
<1> DEFINE h == Heap(0)
<1>1. /\ h.at = [i \in Items |-> Freed] /\ h.live = 0 /\ DOMAIN h.at = Items
      /\ Freed.type = "Freed" /\ Freed.isRef = FALSE
  BY DEF Init, Heap, Freed, Struct
<1>2. h \in Heaps(Kinds, AllNames) /\ Shows(h, lists)
  BY EmptyShows
<1>3. lists = [i \in Items |-> <<>>] /\ held = {} /\ lent = [i \in Items |-> NULL]
  BY DEF Init
<1> HIDE DEF h
<1>4. Live(h) = {} /\ Refs(h) = {}
  BY <1>1 DEF Live, Refs
<1>5. IsForest(Live(h), lists, held)
  BY <1>3, <1>4, EmptyForest
<1>6. Counted(h)
  <2>1. Blocks(h.at) = {}
    BY <1>1 DEF Blocks
  <2> QED
    BY <1>1, <2>1, FS_EmptySet DEF Counted
<1>7. \A j \in Items \ Live(h) : h.at[j] = Freed
  BY <1>1
<1>8. Lending(h, lent)
  BY <1>3, <1>4 DEF Lending, Pointers
<1> QED
  BY <1>2, <1>5, <1>6, <1>7, <1>8 DEF IInv, Sound, h

LEMMA UnchangedHolds ==
    ASSUME IInv, UNCHANGED vars
    PROVE  IInv' /\ UNCHANGED Forest!vars
<1>1. at' = at /\ lists' = lists /\ blocks' = blocks /\ held' = held /\ lent' = lent
  BY DEF vars
<1>2. Heap(0)' = Heap(0)
  BY <1>1 DEF Heap
<1>3. IInv'
  BY <1>1, <1>2 DEF IInv
<1>4. {i \in Items : Alive(i)}' = {i \in Items : Alive(i)}
  BY <1>1 DEF Alive
<1> QED
  BY <1>1, <1>3, <1>4 DEF Forest!vars

LEMMA StepHolds == IInv /\ [Next]_vars => IInv' /\ [Forest!Next]_(Forest!vars)
<1>1. ASSUME IInv, Next PROVE IInv' /\ [Forest!Next]_(Forest!vars)
  BY <1>1, NextKeeps DEF Keeps
<1> QED
  BY <1>1, UnchangedHolds

-----------------------------------------------------------------------------
LEMMA LinkedHolds == IInv => Linked
<1> SUFFICES ASSUME IInv, NEW i \in Items, Alive(i)
             PROVE  LET it == at[i]
                    IN  /\ {it.next, it.prev, it.child} \subseteq
                               {NULL} \cup {j \in Items : Alive(j)}
                        /\ it.next # NULL => at[it.next].prev = i
                        /\ it.prev # NULL => at[it.prev].next = i
                        /\ it.child # NULL => at[it.child].prev = NULL
                        /\ i \in held => it.next = NULL /\ it.prev = NULL
  BY DEF Linked
<1> DEFINE h == Heap(0)
<1>1. /\ Sound(h, lists, held) /\ Lending(h, lent) /\ h.at = at
      /\ Live(h) = {j \in Items : Alive(j)} /\ i \in Live(h)
  BY InUseIs DEF IInv, Heap, InUse
<1> HIDE DEF h
<1>2. LET it == h.at[i]
      IN  /\ {it.next, it.prev, it.child} \subseteq {NULL} \cup Live(h)
          /\ it.next # NULL => h.at[it.next].prev = i
          /\ it.prev # NULL => h.at[it.prev].next = i
          /\ it.child # NULL => h.at[it.child].prev = NULL
          /\ i \in held => it.next = NULL /\ it.prev = NULL
  BY <1>1, AllLinked
<1> QED
  BY <1>1, <1>2

(* In whatever order the functions are called, and whichever of their         *)
(* allocations fail, the pointers of a list mirror one another, what starts a *)
(* list or is held has nothing before it, and no pointer leads to an item     *)
(* that was freed.                                                           *)
THEOREM PointersHold == Spec => []Linked
BY InitHolds, StepHolds, LinkedHolds, PTL DEF Spec

LEMMA CountHolds == IInv => MemoryCounted
BY SoundFacts DEF IInv, Counted, MemoryCounted, Heap

(* The blocks of memory in use are those of the items in use: no path gives   *)
(* back too little or too much, not even one that stops for want of memory.   *)
THEOREM MemoryHolds == Spec => []MemoryCounted
BY InitHolds, StepHolds, CountHolds, PTL DEF Spec

LEMMA ForestStarts == Init => Forest!Init
<1> SUFFICES ASSUME Init PROVE Forest!Init
  OBVIOUS
<1>1. {i \in Items : Alive(i)} = {}
  BY DEF Init, Alive, Freed, Struct
<1> QED
  BY <1>1 DEF Init, Forest!Init

(* Every call of cJSON does to the lists of children what ItemForest says of  *)
(* it, or leaves them alone.                                                 *)
THEOREM ForestRefined == Spec => RefinesForest
BY InitHolds, StepHolds, ForestStarts, PTL DEF Spec, RefinesForest, Forest!Spec

-----------------------------------------------------------------------------
(* What the calls of ItemForest keep, whatever program makes them.           *)
FInv == IsForest(InUse, lists, held)

LEMMA ForestFacts ==
    ASSUME FInv
    PROVE  InUse \subseteq Items /\ held \subseteq InUse /\ lists \in [Items -> Seq(Items)]
BY DEF FInv, IsForest, Typed

LEMMA ForestInit == Forest!Init => FInv
<1> SUFFICES ASSUME Forest!Init PROVE FInv
  OBVIOUS
<1>1. InUse = {} /\ held = {} /\ lists = [i \in Items |-> <<>>]
  BY InUseIs DEF Forest!Init
<1> HIDE DEF Forest!Init
<1> QED
  BY <1>1, EmptyForest DEF FInv

LEMMA ForestCreate ==
    ASSUME FInv, NEW N \in SUBSET Items, NEW i \in N, Forest!Create(N, i)
    PROVE  FInv'
<1>1. /\ N \cap InUse = {} /\ InUse' = InUse \cup N /\ held' = held \cup {i}
      /\ lists' \in [Items -> Seq(Items)]
      /\ \A j \in Items \ N : lists'[j] = lists[j]
      /\ IsNewTree(N, lists', i)
  BY InUseIs, InUseNext, ForestNewTree DEF Forest!Create
<1>2. IsForest(InUse \cup N, lists', held \cup {i})
  BY <1>1, CreateForest DEF FInv
<1> QED
  BY <1>1, <1>2 DEF FInv

LEMMA ForestInsert ==
    ASSUME FInv, NEW p \in InUse, NEW i \in held,
           NEW c \in 1..(Len(lists[p]) + 1), Forest!Insert(p, c, i)
    PROVE  FInv'
<1>1. /\ p \notin Tree(lists, i) /\ InUse' = InUse /\ held' = held \ {i}
      /\ lists' = [lists EXCEPT ![p] = Inserted(@, c, i)]
  BY InUseIs, InUseNext, ForestInserted, ForestTree DEF Forest!Insert
<1>2. IsForest(InUse, [lists EXCEPT ![p] = Inserted(@, c, i)], held \ {i})
  BY <1>1, InsertForest DEF FInv
<1> QED
  BY <1>1, <1>2 DEF FInv

LEMMA ForestInsertNew ==
    ASSUME FInv, NEW p \in InUse, NEW i \in Items, Forest!InsertNew(p, i)
    PROVE  FInv'
<1> DEFINE l2 == InUse \cup {i}
           h2 == held \cup {i}
           c  == Len(lists[p]) + 1
<1>0. /\ i \notin InUse /\ InUse' = l2 /\ held' = held
      /\ lists' = [lists EXCEPT ![p] = Inserted(@, c, i)]
  BY InUseIs, InUseNext, ForestInserted DEF Forest!InsertNew
<1>1. /\ IsForest(InUse, lists, held) /\ lists \in [Items -> Seq(Items)]
      /\ InUse \subseteq Items /\ held \subseteq InUse /\ p \in Items
  BY ForestFacts DEF FInv
<1>2. lists[i] = <<>>
  BY <1>0, <1>1 DEF IsForest, Inside
<1>3. Elements(lists[i]) = {} /\ Len(lists[i]) = 0
  BY <1>2 DEF Elements
<1>4. IsNewTree({i}, lists, i)
  BY <1>1, <1>3, TreeHasRoot DEF IsNewTree
<1>5. IsForest(l2, lists, h2)
  BY <1>0, <1>1, <1>4, CreateForest
<1>6. Tree(lists, i) = {i}
  BY <1>2, TreeAlone
<1>7. c \in 1..(Len(lists[p]) + 1)
  BY <1>1, LenProperties
<1>8. p \in l2 /\ i \in h2 /\ p \notin Tree(lists, i)
  BY <1>0, <1>6
<1>9. h2 \ {i} = held
  BY <1>0, <1>1
<1> HIDE DEF l2, h2
<1>10. IsForest(l2, [lists EXCEPT ![p] = Inserted(@, c, i)], h2 \ {i})
  BY <1>5, <1>7, <1>8, InsertForest
<1> QED
  BY <1>0, <1>9, <1>10 DEF FInv

LEMMA ForestDetach ==
    ASSUME FInv, NEW p \in InUse, NEW c \in 1..Len(lists[p]), Forest!Detach(p, c)
    PROVE  FInv'
<1>1. /\ InUse' = InUse /\ held' = held \cup {lists[p][c]}
      /\ lists' = [lists EXCEPT ![p] = Without(@, c)]
  BY InUseIs, InUseNext, ForestWithout DEF Forest!Detach
<1>2. IsForest(InUse, [lists EXCEPT ![p] = Without(@, c)], held \cup {lists[p][c]})
  BY DetachForest DEF FInv
<1> QED
  BY <1>1, <1>2 DEF FInv

LEMMA ForestDelete ==
    ASSUME FInv, NEW i \in held, Forest!Delete(i)
    PROVE  FInv'
<1> DEFINE G == Tree(lists, i)
<1>1. InUse' = InUse \ G /\ held' = held \ {i} /\ lists' = Pruned(lists, G)
  BY InUseIs, InUseNext, ForestTree, ForestPruned DEF Forest!Delete
<1>2. IsForest(InUse \ G, Pruned(lists, G), held \ {i})
  BY DeleteForest DEF FInv
<1> QED
  BY <1>1, <1>2 DEF FInv

LEMMA ForestDeleteFrom ==
    ASSUME FInv, NEW p \in InUse, NEW c \in 1..Len(lists[p]), Forest!DeleteFrom(p, c)
    PROVE  FInv'
<1> DEFINE x == lists[p][c]
           k1 == [lists EXCEPT ![p] = Without(@, c)]
           G  == Tree(k1, x)
<1>1. InUse' = InUse \ G /\ held' = held /\ lists' = Pruned(k1, G)
  BY InUseIs, InUseNext, ForestTree, ForestPruned, ForestWithout DEF Forest!DeleteFrom
<1>2. IsForest(InUse, k1, held \cup {x}) /\ x \in InUse \ held
  BY DetachForest DEF FInv
<1> HIDE DEF k1, x
<1>3. IsForest(InUse \ G, Pruned(k1, G), (held \cup {x}) \ {x})
  BY <1>2, DeleteForest
<1>4. (held \cup {x}) \ {x} = held
  BY <1>2
<1> QED
  BY <1>1, <1>3, <1>4 DEF FInv

LEMMA ForestReplace ==
    ASSUME FInv, NEW p \in InUse, NEW c \in 1..Len(lists[p]), NEW i \in held,
           Forest!Replace(p, c, i)
    PROVE  FInv'
<1> DEFINE x  == lists[p][c]
           k2 == [lists EXCEPT ![p] = Inserted(Without(@, c), c, i)]
           G  == Tree(k2, x)
<1>1. /\ p \notin Tree(lists, i)
      /\ InUse' = InUse \ G /\ held' = held \ {i} /\ lists' = Pruned(k2, G)
  BY InUseIs, InUseNext, ForestTree, ForestPruned, ForestWithout, ForestInserted
     DEF Forest!Replace
<1>2. IsForest(InUse, k2, (held \ {i}) \cup {x}) /\ x \notin held
  BY <1>1, ReplaceForest DEF FInv
<1> HIDE DEF k2, x
<1>3. IsForest(InUse \ G, Pruned(k2, G), ((held \ {i}) \cup {x}) \ {x})
  BY <1>2, DeleteForest
<1>4. ((held \ {i}) \cup {x}) \ {x} = held \ {i}
  BY <1>2
<1> QED
  BY <1>1, <1>3, <1>4 DEF FInv

LEMMA ForestStep == FInv /\ [Forest!Next]_(Forest!vars) => FInv'
<1> SUFFICES ASSUME FInv, [Forest!Next]_(Forest!vars) PROVE FInv'
  OBVIOUS
<1>1. CASE UNCHANGED Forest!vars
  <2>1. InUse' = InUse /\ lists' = lists /\ held' = held
    BY <1>1, InUseIs, InUseNext DEF Forest!vars
  <2> QED
    BY <2>1 DEF FInv
<1>2. CASE Forest!Next
  <2>1. \/ \E N \in SUBSET Items : \E i \in N : Forest!Create(N, i)
        \/ \E p \in InUse, i \in held : \E k \in 1..(Len(lists[p]) + 1) :
              Forest!Insert(p, k, i)
        \/ \E p \in InUse, i \in Items : Forest!InsertNew(p, i)
        \/ \E p \in InUse : \E k \in 1..Len(lists[p]) :
              \/ Forest!Detach(p, k) \/ Forest!DeleteFrom(p, k)
              \/ \E i \in held : Forest!Replace(p, k, i)
        \/ \E i \in held : Forest!Delete(i)
    BY <1>2, InUseIs DEF Forest!Next
  <2>2. ASSUME NEW N \in SUBSET Items, NEW i \in N, Forest!Create(N, i) PROVE FInv'
    BY <2>2, ForestCreate
  <2>3. ASSUME NEW p \in InUse, NEW i \in held, NEW c \in 1..(Len(lists[p]) + 1),
               Forest!Insert(p, c, i)
        PROVE  FInv'
    BY <2>3, ForestInsert
  <2>4. ASSUME NEW p \in InUse, NEW i \in Items, Forest!InsertNew(p, i) PROVE FInv'
    BY <2>4, ForestInsertNew
  <2>5. ASSUME NEW p \in InUse, NEW c \in 1..Len(lists[p]),
               \/ Forest!Detach(p, c) \/ Forest!DeleteFrom(p, c)
               \/ \E i \in held : Forest!Replace(p, c, i)
        PROVE  FInv'
    BY <2>5, ForestDetach, ForestDeleteFrom, ForestReplace
  <2>6. ASSUME NEW i \in held, Forest!Delete(i) PROVE FInv'
    BY <2>6, ForestDelete
  <2> QED
    BY <2>1, <2>2, <2>3, <2>4, <2>5, <2>6
<1> QED
  BY <1>1, <1>2

LEMMA ForestParts ==
    FInv => Forest!TypeOK /\ Forest!OnePlace /\ Forest!OnlyLive /\ Forest!NothingLost
<1> SUFFICES ASSUME FInv
             PROVE  Forest!TypeOK /\ Forest!OnePlace /\ Forest!OnlyLive
                       /\ Forest!NothingLost
  OBVIOUS
<1>0. InUse = {i \in Items : Alive(i)} /\ \A s : Forest!Elements(s) = Elements(s)
  BY InUseIs DEF Elements, Forest!Elements
<1>1. Forest!TypeOK
  BY <1>0 DEF FInv, IsForest, Typed, Forest!TypeOK
<1>2. Forest!OnePlace
  BY <1>0 DEF FInv, IsForest, Apart, NoChild, Forest!OnePlace
<1>3. Forest!OnlyLive
  BY <1>0 DEF FInv, IsForest, Inside, Forest!OnlyLive
<1>4. Forest!NothingLost
  BY <1>0, ForestTree DEF FInv, IsForest, Reached, Forest!NothingLost
<1> QED
  BY <1>1, <1>2, <1>3, <1>4

(* Every item in use is in one place, the children of items in use are in use, *)
(* and each is under one the program holds: what is freed or moved is freed or *)
(* moved once, and nothing is lost.                                           *)
THEOREM ForestSafe ==
    Forest!Spec => [](Forest!TypeOK /\ Forest!OnePlace /\ Forest!OnlyLive
                         /\ Forest!NothingLost)
BY ForestInit, ForestStep, ForestParts, PTL DEF Forest!Spec

(* So it is with the items of cJSON, whatever calls the program makes.       *)
THEOREM TreesSafe ==
    Spec => [](Forest!TypeOK /\ Forest!OnePlace /\ Forest!OnlyLive
                  /\ Forest!NothingLost)
BY ForestRefined, ForestSafe, PTL DEF RefinesForest
=============================================================================
