----------------------------- MODULE ListsProofs -----------------------------
(***************************************************************************)
(* What appending to and removing from a list of module Lists does to its  *)
(* items, for lists of every length.                                       *)
(***************************************************************************)
EXTENDS Lists, SequenceTheorems, WellFoundedInduction, TLAPS

\* The items of a list are of the type of its sequence.
LEMMA ItemsType ==
  ASSUME NEW S, NEW l \in ListOf(S)
  PROVE  /\ Items(l) \subseteq S
         /\ \A i \in DOMAIN l.items : l.items[i] \in S /\ l.items[i] \in Items(l)
BY DEF Items, ListOf

\* list_append adds the new item, last, and keeps the others where they are.
LEMMA AppendItems ==
  ASSUME NEW S, NEW l \in ListOf(S), NEW x \in S
  PROVE  /\ ListAppend(l, x) \in ListOf(S)
         /\ ListAppend(l, x).freed = l.freed
         /\ ListAppend(l, x).damaged = l.damaged
         /\ Items(ListAppend(l, x)) = Items(l) \union {x}
         /\ DOMAIN ListAppend(l, x).items = 1..(Len(l.items) + 1)
         /\ \A i \in DOMAIN l.items : ListAppend(l, x).items[i] = l.items[i]
         /\ ListAppend(l, x).items[Len(l.items) + 1] = x
<1> DEFINE m == ListAppend(l, x)
<1>1. m = [l EXCEPT !.items = Append(l.items, x)] /\ l.items \in Seq(S) /\ l.freed \in BOOLEAN /\ l.damaged \in BOOLEAN
  BY DEF ListAppend, ListOf
<1>2. m.items = Append(l.items, x) /\ m.freed = l.freed /\ m.damaged = l.damaged /\ m \in ListOf(S)
  <2>1. Append(l.items, x) \in Seq(S)
    BY <1>1
  <2>2. m = [items |-> Append(l.items, x), freed |-> l.freed, damaged |-> l.damaged]
    BY <1>1 DEF ListOf
  <2>3. l.freed => l.damaged
    BY DEF ListOf
  <2> HIDE DEF m
  <2> QED BY <1>1, <2>1, <2>2, <2>3 DEF ListOf
<1>3. /\ DOMAIN m.items = 1..(Len(l.items) + 1)
      /\ \A i \in DOMAIN l.items : m.items[i] = l.items[i]
      /\ m.items[Len(l.items) + 1] = x
  BY <1>1, <1>2
<1>4. Items(m) = Items(l) \union {x}
  <2>1. ASSUME NEW y \in Items(m) PROVE y \in Items(l) \union {x}
    <3>1. PICK i \in DOMAIN m.items : y = m.items[i]
      BY DEF Items
    <3>2. CASE i \in DOMAIN l.items
      BY <3>1, <3>2, <1>3 DEF Items
    <3>3. CASE i \notin DOMAIN l.items
      <4>1. i = Len(l.items) + 1
        BY <1>1, <1>3, <3>3
      <4> QED BY <4>1, <3>1, <1>3
    <3> QED BY <3>2, <3>3
  <2>2. Items(l) \subseteq Items(m)
    <3>1. DOMAIN l.items \subseteq DOMAIN m.items
      BY <1>1, <1>3
    <3> QED BY <3>1, <1>3 DEF Items
  <2>3. x \in Items(m)
    <3>1. Len(l.items) + 1 \in DOMAIN m.items
      BY <1>1, <1>3
    <3> QED BY <3>1, <1>3 DEF Items
  <2> QED BY <2>1, <2>2, <2>3
<1> QED BY <1>2, <1>3, <1>4

\* Whichever node malloc hands out, the new item is in the list, nothing else is
\* new, and a list whose root is not freed loses nothing.
LEMMA AppendsItems ==
  ASSUME NEW S, NEW l \in ListOf(S), NEW x \in S, NEW m \in ListAppends(l, x)
  PROVE  /\ m \in ListOf(S)
         /\ m.damaged = l.damaged
         /\ Items(m) \subseteq Items(l) \union {x}
         /\ ~l.freed => Items(m) = Items(l) \union {x}
         /\ m = ListAppend(l, x) \/ m.items = <<x>>
<1>1. CASE m = ListAppend(l, x)
  BY <1>1, AppendItems
<1>2. CASE m = [l EXCEPT !.items = <<x>>, !.freed = FALSE] /\ l.freed
  <2>1. l.items \in Seq(S) /\ l.freed \in BOOLEAN /\ l.damaged \in BOOLEAN
    BY DEF ListOf
  <2>2. m = [items |-> <<x>>, freed |-> FALSE, damaged |-> l.damaged]
    BY <1>2 DEF ListOf
  <2>4. m.items = <<x>> /\ m.freed = FALSE /\ m.damaged = l.damaged /\ m \in ListOf(S)
    BY <2>1, <2>2 DEF ListOf
  <2>3. Items(m) = {x}
    BY <2>4 DEF Items
  <2> QED BY <1>2, <2>4, <2>3
<1> QED BY <1>1, <1>2 DEF ListAppends

\* RemoveAt, element by element.
LEMMA RemoveAtItems ==
  ASSUME NEW S, NEW s \in Seq(S), NEW i \in DOMAIN s
  PROVE  /\ RemoveAt(s, i) \in Seq(S)
         /\ Len(RemoveAt(s, i)) = Len(s) - 1
         /\ \A j \in 1..(Len(s) - 1) :
              RemoveAt(s, i)[j] = IF j < i THEN s[j] ELSE s[j + 1]
<1> DEFINE a == SubSeq(s, 1, i - 1)
           b == SubSeq(s, i + 1, Len(s))
<1>1. Len(s) \in Nat /\ i \in 1..Len(s) /\ DOMAIN s = 1..Len(s)
  OBVIOUS
<1>2. a \in Seq(S) /\ Len(a) = i - 1 /\ \A j \in 1..(i - 1) : a[j] = s[j]
  BY <1>1
<1>3. b \in Seq(S) /\ Len(b) = Len(s) - i /\ \A j \in 1..(Len(s) - i) : b[j] = s[j + i]
  BY <1>1
<1>4. RemoveAt(s, i) = a \o b
  BY DEF RemoveAt
<1> HIDE DEF a, b
<1>5. a \o b \in Seq(S) /\ Len(a \o b) = Len(s) - 1
  <2>1. a \o b \in Seq(S) /\ Len(a \o b) = Len(a) + Len(b)
    BY <1>2, <1>3, ConcatProperties
  <2>2. (i - 1) + (Len(s) - i) = Len(s) - 1
    BY <1>1
  <2> QED BY <2>1, <2>2, <1>2, <1>3
<1>6. ASSUME NEW j \in 1..(Len(s) - 1)
      PROVE  (a \o b)[j] = IF j < i THEN s[j] ELSE s[j + 1]
  <2>1. CASE j < i
    BY <2>1, <1>1, <1>2, <1>3
  <2>2. CASE ~(j < i)
    <3>1. (a \o b)[j] = b[j - (i - 1)]
      BY <2>2, <1>1, <1>2, <1>3
    <3>2. j - (i - 1) \in 1..(Len(s) - i) /\ (j - (i - 1)) + i = j + 1
      BY <2>2, <1>1
    <3> QED BY <3>1, <3>2, <1>3, <2>2
  <2> QED BY <2>1, <2>2
<1> QED BY <1>4, <1>5, <1>6

\* Removing a node the root does not point to loses the item of that node alone.
LEMMA RemoveItems ==
  ASSUME NEW S, NEW l \in ListOf(S), NEW i \in DOMAIN l.items
  PROVE  /\ ListRemove(l, i) \in ListOf(S)
         /\ Items(ListRemove(l, i)) \subseteq Items(l)
         /\ i = 1 => ListRemove(l, i).damaged
         /\ i # 1 => /\ ListRemove(l, i).damaged = l.damaged
                     /\ ListRemove(l, i).items = RemoveAt(l.items, i)
                     /\ Items(l) \ {l.items[i]} \subseteq Items(ListRemove(l, i))
<1> DEFINE s == l.items
           m == ListRemove(l, i)
<1>1. s \in Seq(S) /\ l.freed \in BOOLEAN /\ l.damaged \in BOOLEAN /\ s[i] \in S /\ Len(s) \in Nat /\ DOMAIN s = 1..Len(s)
  BY DEF ListOf
<1>2. CASE i = 1
  <2>1. m = [items |-> <<s[1]>>, freed |-> TRUE, damaged |-> TRUE]
    BY <1>2 DEF ListRemove
  <2>2. m \in ListOf(S) /\ Items(m) = {s[1]} /\ m.damaged
    BY <2>1, <1>1, <1>2 DEF ListOf, Items
  <2> QED BY <2>2, <1>2 DEF Items
<1>3. CASE i # 1
  <2>1. m = [l EXCEPT !.items = RemoveAt(s, i)]
    BY <1>3 DEF ListRemove, RemoveAnywhere
  <2>2. /\ RemoveAt(s, i) \in Seq(S)
        /\ Len(RemoveAt(s, i)) = Len(s) - 1
        /\ \A j \in 1..(Len(s) - 1) : RemoveAt(s, i)[j] = IF j < i THEN s[j] ELSE s[j + 1]
    BY <1>1, RemoveAtItems
  <2>3. m \in ListOf(S) /\ m.damaged = l.damaged /\ m.items = RemoveAt(s, i)
    BY <2>1, <2>2, <1>1 DEF ListOf
  <2>4. DOMAIN m.items = 1..(Len(s) - 1)
    BY <2>2, <2>3, <1>1
  <2>5. Items(m) \subseteq Items(l)
    <3>1. ASSUME NEW j \in 1..(Len(s) - 1) PROVE m.items[j] \in Items(l)
      <4>1. j \in DOMAIN s /\ j + 1 \in DOMAIN s
        BY <1>1
      <4> QED BY <4>1, <2>2, <2>3 DEF Items
    <3> QED BY <3>1, <2>4 DEF Items
  <2>6. ASSUME NEW k \in DOMAIN s, k # i PROVE s[k] \in Items(m)
    <3>1. CASE k < i
      <4>1. k \in 1..(Len(s) - 1) /\ m.items[k] = s[k]
        BY <3>1, <1>1, <2>2, <2>3
      <4> QED BY <4>1, <2>4 DEF Items
    <3>2. CASE k > i
      <4>1. k - 1 \in 1..(Len(s) - 1) /\ m.items[k - 1] = s[k]
        BY <3>2, <1>1, <2>2, <2>3
      <4> QED BY <4>1, <2>4 DEF Items
    <3> QED BY <3>1, <3>2, <2>6, <1>1
  <2>7. Items(l) \ {s[i]} \subseteq Items(m)
    BY <2>6 DEF Items
  <2> QED BY <2>3, <2>5, <2>7, <1>3
<1> QED BY <1>2, <1>3

\* When no item occurs twice, that item is then gone.
LEMMA RemoveDistinct ==
  ASSUME NEW S, NEW l \in ListOf(S), NEW i \in DOMAIN l.items, i # 1,
         \A j, k \in DOMAIN l.items : l.items[j] = l.items[k] => j = k
  PROVE  Items(ListRemove(l, i)) = Items(l) \ {l.items[i]}
<1> DEFINE s == l.items
           m == ListRemove(l, i)
<1>1. s \in Seq(S) /\ Len(s) \in Nat /\ DOMAIN s = 1..Len(s)
  BY DEF ListOf
<1>2. m.items = RemoveAt(s, i) /\ Items(m) \subseteq Items(l) /\ Items(l) \ {s[i]} \subseteq Items(m)
  BY RemoveItems
<1>3. /\ DOMAIN m.items = 1..(Len(s) - 1)
      /\ \A j \in 1..(Len(s) - 1) : m.items[j] = IF j < i THEN s[j] ELSE s[j + 1]
  <2>1. /\ RemoveAt(s, i) \in Seq(S) /\ Len(RemoveAt(s, i)) = Len(s) - 1
        /\ \A j \in 1..(Len(s) - 1) : RemoveAt(s, i)[j] = IF j < i THEN s[j] ELSE s[j + 1]
    BY <1>1, RemoveAtItems
  <2> QED BY <2>1, <1>1, <1>2
<1>4. ASSUME NEW j \in 1..(Len(s) - 1) PROVE m.items[j] # s[i]
  <2>1. CASE j < i
    <3>1. j \in DOMAIN s /\ j # i
      BY <2>1, <1>1
    <3> QED BY <3>1, <2>1, <1>3
  <2>2. CASE ~(j < i)
    <3>1. j + 1 \in DOMAIN s /\ j + 1 # i
      BY <2>2, <1>1
    <3> QED BY <3>1, <2>2, <1>3
  <2> QED BY <2>1, <2>2
<1>5. s[i] \notin Items(m)
  BY <1>3, <1>4 DEF Items
<1> QED BY <1>2, <1>5

\* And none of the others occurs twice.
LEMMA RemoveKeepsDistinct ==
  ASSUME NEW S, NEW l \in ListOf(S), NEW i \in DOMAIN l.items,
         \A j, k \in DOMAIN l.items : l.items[j] = l.items[k] => j = k
  PROVE  \A j, k \in DOMAIN ListRemove(l, i).items :
           ListRemove(l, i).items[j] = ListRemove(l, i).items[k] => j = k
<1> DEFINE s == l.items
           m == ListRemove(l, i)
           old(x) == IF x < i THEN x ELSE x + 1
<1>1. s \in Seq(S) /\ Len(s) \in Nat /\ DOMAIN s = 1..Len(s)
  BY DEF ListOf
<1>2. CASE i = 1
  <2>1. m.items = <<s[1]>>
    BY <1>2 DEF ListRemove
  <2>2. DOMAIN m.items = {1}
    BY <2>1
  <2> QED BY <2>2
<1>3. CASE i # 1
  <2>1. m.items = RemoveAt(s, i)
    BY <1>3, RemoveItems
  <2>2. /\ RemoveAt(s, i) \in Seq(S) /\ Len(RemoveAt(s, i)) = Len(s) - 1
        /\ \A j \in 1..(Len(s) - 1) : RemoveAt(s, i)[j] = IF j < i THEN s[j] ELSE s[j + 1]
    <3>1. i \in DOMAIN s
      OBVIOUS
    <3> HIDE DEF s
    <3> QED BY <1>1, <3>1, RemoveAtItems
  <2>3. DOMAIN m.items = 1..(Len(s) - 1)
    BY <1>1, <2>1, <2>2
  <2>4. ASSUME NEW x \in 1..(Len(s) - 1)
        PROVE  old(x) \in DOMAIN s /\ m.items[x] = s[old(x)]
    <3>1. old(x) \in DOMAIN s
      BY <1>1
    <3>2. m.items[x] = s[old(x)]
      BY <2>1, <2>2
    <3> QED BY <3>1, <3>2
  <2>5. ASSUME NEW j \in 1..(Len(s) - 1), NEW k \in 1..(Len(s) - 1), m.items[j] = m.items[k]
        PROVE  j = k
    <3>1. old(j) = old(k)
      <4>1. s[old(j)] = s[old(k)] /\ old(j) \in DOMAIN s /\ old(k) \in DOMAIN s
        BY <2>4, <2>5
      <4> HIDE DEF old
      <4> QED BY <4>1
    <3> QED BY <1>1, <3>1
  <2> QED BY <2>3, <2>5
<1> QED BY <1>2, <1>3

\* A set of positions that is not empty has a first one.
LEMMA FirstPosition ==
  ASSUME NEW P \in SUBSET Nat, P # {}
  PROVE  \E i \in P : \A j \in P : ~(j < i)
<1> DEFINE R == OpToRel(<, Nat)
<1>1. IsWellFoundedOn(R, Nat)
  BY NatLessThanWellFounded
<1>2. PICK i \in P : \A j \in P : ~(<<j, i>> \in R)
  <2> HIDE DEF R
  <2> QED BY <1>1, WFMin
<1> QED BY <1>2 DEF OpToRel

=============================================================================
