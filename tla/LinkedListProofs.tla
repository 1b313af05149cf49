-------------------------- MODULE LinkedListProofs --------------------------
(***************************************************************************)
(* The pointer operations of list.c keep a list doubly linked, and they    *)
(* implement the operations on sequences of ListSpec, for any number of    *)
(* nodes.                                                                  *)
(***************************************************************************)
EXTENDS LinkedList, ListsProofs, FiniteSetTheorems, WellFoundedInduction

-----------------------------------------------------------------------------
(* Traversals.                                                             *)

\* The equation that defines Hops.
Hopping(hop, r, next) ==
  hop = [k \in Nat |-> IF k = 0 THEN r ELSE IF hop[k - 1] = NULL THEN NULL ELSE next[hop[k - 1]]]

\* It has one solution: two that differ do so at some hop first.
LEMMA SameHops ==
  ASSUME NEW r, NEW next, NEW f, NEW g, Hopping(f, r, next), Hopping(g, r, next)
  PROVE  f = g
<1> DEFINE Differ == {k \in Nat : f[k] # g[k]}
           R == OpToRel(<, Nat)
<1>1. f = [k \in Nat |-> IF k = 0 THEN r ELSE IF f[k - 1] = NULL THEN NULL ELSE next[f[k - 1]]]
  BY DEF Hopping
<1>2. g = [k \in Nat |-> IF k = 0 THEN r ELSE IF g[k - 1] = NULL THEN NULL ELSE next[g[k - 1]]]
  BY DEF Hopping
<1>3. \A k \in Nat : f[k] = IF k = 0 THEN r ELSE IF f[k - 1] = NULL THEN NULL ELSE next[f[k - 1]]
  BY <1>1
<1>4. \A k \in Nat : g[k] = IF k = 0 THEN r ELSE IF g[k - 1] = NULL THEN NULL ELSE next[g[k - 1]]
  BY <1>2
<1>5. Differ = {}
  <2> SUFFICES ASSUME Differ # {} PROVE FALSE
    OBVIOUS
  <2>1. Differ \subseteq Nat
    OBVIOUS
  <2>2. IsWellFoundedOn(R, Nat)
    BY NatLessThanWellFounded
  <2>3. PICK k \in Differ : \A y \in Differ : ~ (<<y, k>> \in R)
    <3> HIDE DEF Differ, R
    <3> QED BY <2>1, <2>2, WFMin
  <2>4. \A y \in Differ : ~ (y < k)
    BY <2>1, <2>3 DEF OpToRel
  <2>5. CASE k = 0
    BY <2>5, <2>3, <1>3, <1>4
  <2>6. CASE k # 0
    <3>1. k \in Nat /\ k - 1 \in Nat /\ k - 1 < k
      BY <2>6
    <3>2. f[k - 1] = g[k - 1]
      BY <3>1, <2>4
    <3> QED BY <3>1, <3>2, <2>3, <2>6, <1>3, <1>4
  <2> QED BY <2>5, <2>6
<1>6. \A k \in Nat : f[k] = g[k]
  BY <1>5
<1>7. f = [k \in Nat |-> f[k]] /\ g = [k \in Nat |-> g[k]]
  BY <1>1, <1>2
<1> HIDE DEF Differ, R
<1> QED BY <1>6, <1>7

\* So any solution is Hops.
LEMMA HopsUnique ==
  ASSUME NEW r, NEW next, NEW g, Hopping(g, r, next)
  PROVE  Hops(r, next) = g
<1>1. Hops(r, next) = CHOOSE hop : Hopping(hop, r, next)
  BY DEF Hops, Hopping
<1>2. Hopping(Hops(r, next), r, next)
  <2> HIDE DEF Hopping
  <2> QED BY <1>1
<1> QED BY <1>2, SameHops

\* From the root of a list of nodes the hops lead through it and then nowhere.
LEMMA HopsOfList ==
  ASSUME NEW r, NEW next, NEW p \in Seq(Node), Leads(r, next, p)
  PROVE  Hops(r, next) = [k \in Nat |-> IF k < Len(p) THEN p[k + 1] ELSE NULL]
<1> DEFINE g == [k \in Nat |-> IF k < Len(p) THEN p[k + 1] ELSE NULL]
<1>1. /\ Len(p) \in Nat /\ DOMAIN p = 1..Len(p)
      /\ \A i \in 1..Len(p) : p[i] \in Node /\ p[i] # NULL
  BY NodeAssumption
<1>2. /\ r = IF Len(p) = 0 THEN NULL ELSE p[1]
      /\ \A i \in 1..Len(p) : next[p[i]] = IF i = Len(p) THEN NULL ELSE p[i + 1]
  BY DEF Leads
<1>3. ASSUME NEW k \in Nat
      PROVE  g[k] = IF k = 0 THEN r ELSE IF g[k - 1] = NULL THEN NULL ELSE next[g[k - 1]]
  <2>1. CASE k = 0
    <3>1. g[0] = IF 0 < Len(p) THEN p[1] ELSE NULL
      OBVIOUS
    <3>2. 0 < Len(p) <=> Len(p) # 0
      BY <1>1
    <3> HIDE DEF g
    <3> QED BY <2>1, <3>1, <3>2, <1>2
  <2>2. CASE k # 0 /\ k - 1 < Len(p)
    <3>1. k \in 1..Len(p) /\ k - 1 \in Nat /\ (k - 1) + 1 = k /\ (k < Len(p) <=> k # Len(p))
      <4>1. Len(p) \in Nat
        BY <1>1
      <4> HIDE DEF g
      <4> QED BY <4>1, <2>2
    <3>2. g[k - 1] = p[k]
      BY <3>1, <2>2
    <3>3. g[k] = IF k = Len(p) THEN NULL ELSE p[k + 1]
      BY <3>1
    <3>4. p[k] # NULL /\ next[p[k]] = IF k = Len(p) THEN NULL ELSE p[k + 1]
      BY <3>1, <1>1, <1>2
    <3> HIDE DEF g
    <3> QED BY <3>2, <3>3, <3>4, <2>2
  <2>3. CASE k # 0 /\ ~(k - 1 < Len(p))
    <3>1. k - 1 \in Nat /\ ~(k < Len(p))
      BY <2>3, <1>1
    <3> QED BY <3>1, <2>3
  <2> QED BY <2>1, <2>2, <2>3
<1>4. Hopping(g, r, next)
  <2> HIDE DEF g
  <2>1. g = [k \in Nat |-> g[k]]
    BY DEF g
  <2> QED BY <2>1, <1>3 DEF Hopping
<1> QED BY <1>4, HopsUnique

\* No list has more nodes than there are.
LEMMA ListFits ==
  ASSUME NEW p \in Seq(Node), IsInjective(p)
  PROVE  Len(p) \in 0..Cardinality(Node) /\ Cardinality(Node) \in Nat
<1>1. p \in Injection(1..Len(p), Node) /\ Len(p) \in Nat
  BY DEF Injection, IsInjective
<1>2. Cardinality(1..Len(p)) <= Cardinality(Node) /\ Cardinality(Node) \in Nat
  BY <1>1, FS_Injection, FS_CardinalityType, NodeAssumption
<1>3. Cardinality(1..Len(p)) = Len(p)
  <2>1. 1 \in Int /\ Len(p) \in Int
    BY <1>1
  <2>2. Cardinality(1..Len(p)) = IF 1 > Len(p) THEN 0 ELSE Len(p) - 1 + 1
    BY <2>1, FS_Interval
  <2> QED BY <2>2, <1>1
<1> QED BY <1>1, <1>2, <1>3

\* Traversals visit such a list node by node, and end.
LEMMA PathOfList ==
  ASSUME NEW r, NEW next, NEW p \in Seq(Node), IsInjective(p), Leads(r, next, p)
  PROVE  PathOf(r, next) = p /\ Hops(r, next)[Cardinality(Node)] = NULL
<1> DEFINE hop == Hops(r, next)
           Length(k) ==
             /\ k = 0 \/ hop[k - 1] # NULL
             /\ hop[k] = NULL \/ \E j \in 0..(k - 1) : hop[j] = hop[k]
             /\ \A j, l \in 0..(k - 1) : hop[j] = hop[l] => j = l
<1>1. /\ Len(p) \in 0..Cardinality(Node) /\ Len(p) \in Nat /\ DOMAIN p = 1..Len(p)
      /\ \A i \in 1..Len(p) : p[i] \in Node /\ p[i] # NULL
      /\ Cardinality(Node) \in Nat
  BY ListFits, NodeAssumption
<1>2. \A k \in Nat : hop[k] = IF k < Len(p) THEN p[k + 1] ELSE NULL
  BY HopsOfList
<1> HIDE DEF hop
<1>3. \A j, l \in 0..(Len(p) - 1) : hop[j] = hop[l] => j = l
  <2> TAKE j, l \in 0..(Len(p) - 1)
  <2>1. hop[j] = p[j + 1] /\ hop[l] = p[l + 1] /\ j + 1 \in DOMAIN p /\ l + 1 \in DOMAIN p
    BY <1>1, <1>2
  <2>2. hop[j] = hop[l] => j + 1 = l + 1
    BY <2>1 DEF IsInjective
  <2> QED BY <2>2, <1>1
<1>4. Length(Len(p))
  BY <1>1, <1>2, <1>3
<1>5. ASSUME NEW k \in 0..Cardinality(Node), Length(k) PROVE k = Len(p)
  <2>1. k <= Len(p)
    BY <1>1, <1>2, <1>5
  <2>2. ~(k < Len(p))
    <3> SUFFICES ASSUME k < Len(p) PROVE FALSE
      OBVIOUS
    <3>1. hop[k] # NULL
      BY <1>1, <1>2
    <3>2. PICK j \in 0..(k - 1) : hop[j] = hop[k]
      BY <3>1, <1>5
    <3>3. j \in 0..(Len(p) - 1) /\ k \in 0..(Len(p) - 1) /\ j # k
      BY <1>1
    <3> QED BY <3>2, <3>3, <1>3
  <2>3. k \in Nat /\ Len(p) \in Nat
    BY <1>1
  <2> HIDE DEF Length
  <2> QED BY <2>1, <2>2, <2>3
<1>6. (CHOOSE k \in 0..Cardinality(Node) : Length(k)) = Len(p)
  <2> HIDE DEF Length
  <2> QED BY <1>1, <1>4, <1>5
<1>7. PathOf(r, next) = [k \in 1..Len(p) |-> hop[k - 1]]
  BY <1>6 DEF PathOf, hop
<1>8. \A k \in 1..Len(p) : hop[k - 1] = p[k]
  BY <1>1, <1>2
<1>9. p = [k \in 1..Len(p) |-> p[k]]
  OBVIOUS
<1>10. PathOf(r, next) = p
  BY <1>7, <1>8, <1>9
<1>11. hop[Cardinality(Node)] = NULL
  BY <1>1, <1>2
<1> QED BY <1>10, <1>11 DEF hop

\* A root that follows itself is visited again and again.
LEMMA PathOfLoop ==
  ASSUME NEW r \in Node, NEW next, next[r] = r
  PROVE  PathOf(r, next) = <<r>> /\ Hops(r, next)[Cardinality(Node)] = r
<1> DEFINE g == [k \in Nat |-> r]
           hop == Hops(r, next)
           Length(k) ==
             /\ k = 0 \/ hop[k - 1] # NULL
             /\ hop[k] = NULL \/ \E j \in 0..(k - 1) : hop[j] = hop[k]
             /\ \A j, l \in 0..(k - 1) : hop[j] = hop[l] => j = l
<1>1. Hopping(g, r, next)
  BY NodeAssumption DEF Hopping
<1>2. hop = g
  BY <1>1, HopsUnique
<1>3. \A k \in Nat : hop[k] = r
  BY <1>2
<1> HIDE DEF hop, g
<1>4. Cardinality(Node) \in Nat /\ 1 \in 0..Cardinality(Node)
  BY NodeAssumption, FS_CardinalityType, FS_EmptySet
<1>5. Length(1)
  BY <1>3, NodeAssumption
<1>6. ASSUME NEW k \in 0..Cardinality(Node), Length(k) PROVE k = 1
  <2>1. k # 0
    BY <1>3, <1>6, NodeAssumption
  <2>2. ~(k > 1)
    <3> SUFFICES ASSUME k > 1 PROVE FALSE
      OBVIOUS
    <3>1. 0 \in 0..(k - 1) /\ 1 \in 0..(k - 1) /\ hop[0] = hop[1]
      BY <1>3
    <3> QED BY <3>1, <1>6
  <2> QED BY <2>1, <2>2
<1>7. (CHOOSE k \in 0..Cardinality(Node) : Length(k)) = 1
  <2> HIDE DEF Length
  <2> QED BY <1>4, <1>5, <1>6
<1>8. PathOf(r, next) = [k \in 1..1 |-> hop[k - 1]]
  BY <1>7 DEF PathOf, hop
<1>9. \A k \in 1..1 : hop[k - 1] = r
  BY <1>3
<1>10. PathOf(r, next) = <<r>>
  BY <1>8, <1>9
<1> QED BY <1>10, <1>3, <1>4 DEF hop

-----------------------------------------------------------------------------
(* What the operations do to the pointers.                                 *)

\* set_next, when there is a node.
LEMMA SetNextEffect ==
  ASSUME NEW h \in Heap, NEW n \in Node, NEW m \in Pointer
  PROVE  /\ SetNext(h, n, m) \in Heap
         /\ SetNext(h, n, m).next = [h.next EXCEPT ![n] = m]
         /\ SetNext(h, n, m).prev = IF m = NULL THEN h.prev ELSE [h.prev EXCEPT ![m] = n]
         /\ SetNext(h, n, m).data = h.data
<1>1. n # NULL
  BY NodeAssumption
<1>2. SetNext(h, n, m) = [h EXCEPT !.next[n] = m,
                                   !.prev = IF m = NULL THEN h.prev ELSE [h.prev EXCEPT ![m] = n]]
  BY <1>1 DEF SetNext, Heap
<1>3. h.next \in [Node -> Pointer] /\ h.prev \in [Node -> Pointer] /\ h.data \in [Node -> Data \union {NULL}]
  BY DEF Heap
<1>4. SetNext(h, n, m) = [next |-> [h.next EXCEPT ![n] = m],
                          prev |-> IF m = NULL THEN h.prev ELSE [h.prev EXCEPT ![m] = n],
                          data |-> h.data]
  BY <1>2 DEF Heap
<1>5. /\ [h.next EXCEPT ![n] = m] \in [Node -> Pointer]
      /\ (IF m = NULL THEN h.prev ELSE [h.prev EXCEPT ![m] = n]) \in [Node -> Pointer]
  BY <1>3 DEF Pointer
<1> QED BY <1>3, <1>4, <1>5 DEF Heap

\* set_previous, when there is a node.
LEMMA SetPreviousEffect ==
  ASSUME NEW h \in Heap, NEW n \in Node, NEW m \in Pointer
  PROVE  /\ SetPrevious(h, n, m) \in Heap
         /\ SetPrevious(h, n, m).prev = [h.prev EXCEPT ![n] = m]
         /\ SetPrevious(h, n, m).next = IF m = NULL THEN h.next ELSE [h.next EXCEPT ![m] = n]
         /\ SetPrevious(h, n, m).data = h.data
<1>1. n # NULL
  BY NodeAssumption
<1>2. SetPrevious(h, n, m) = [h EXCEPT !.prev[n] = m,
                                       !.next = IF m = NULL THEN h.next ELSE [h.next EXCEPT ![m] = n]]
  BY <1>1 DEF SetPrevious, Heap
<1>3. h.next \in [Node -> Pointer] /\ h.prev \in [Node -> Pointer] /\ h.data \in [Node -> Data \union {NULL}]
  BY DEF Heap
<1>4. SetPrevious(h, n, m) = [next |-> IF m = NULL THEN h.next ELSE [h.next EXCEPT ![m] = n],
                              prev |-> [h.prev EXCEPT ![n] = m],
                              data |-> h.data]
  BY <1>2 DEF Heap
<1>5. /\ [h.prev EXCEPT ![n] = m] \in [Node -> Pointer]
      /\ (IF m = NULL THEN h.next ELSE [h.next EXCEPT ![m] = n]) \in [Node -> Pointer]
  BY <1>3 DEF Pointer
<1> QED BY <1>3, <1>4, <1>5 DEF Heap

\* A new node points nowhere.
LEMMA NewNodeEffect ==
  ASSUME NEW h \in Heap, NEW n \in Node, NEW x \in Data
  PROVE  /\ NewNode(h, n, x) \in Heap
         /\ NewNode(h, n, x).next = [h.next EXCEPT ![n] = NULL]
         /\ NewNode(h, n, x).prev = [h.prev EXCEPT ![n] = NULL]
         /\ NewNode(h, n, x).data = [h.data EXCEPT ![n] = x]
<1>1. h.next \in [Node -> Pointer] /\ h.prev \in [Node -> Pointer] /\ h.data \in [Node -> Data \union {NULL}]
  BY DEF Heap
<1>2. /\ [h.next EXCEPT ![n] = NULL] \in [Node -> Pointer]
      /\ [h.prev EXCEPT ![n] = NULL] \in [Node -> Pointer]
      /\ [h.data EXCEPT ![n] = x] \in [Node -> Data \union {NULL}]
  BY <1>1 DEF Pointer
<1> QED BY <1>2 DEF NewNode, Heap

\* An append makes last and the new node neighbours, and the new node the end.
LEMMA AppendEffect ==
  ASSUME NEW h \in Heap, NEW n \in Node, NEW last \in Node, NEW x \in Data
  PROVE  LET a == SetPrevious(SetNext(NewNode(h, n, x), last, n), n, last) IN
           /\ a \in Heap
           /\ \A m \in Node :
                /\ a.next[m] = IF m = last THEN n ELSE IF m = n THEN NULL ELSE h.next[m]
                /\ a.prev[m] = IF m = n THEN last ELSE h.prev[m]
                /\ a.data[m] = IF m = n THEN x ELSE h.data[m]
<1> DEFINE b == NewNode(h, n, x)
           c == SetNext(b, last, n)
           a == SetPrevious(c, n, last)
<1>1. n # NULL /\ last # NULL /\ n \in Pointer /\ last \in Pointer
  BY NodeAssumption DEF Pointer
<1>2. /\ b \in Heap /\ b.next = [h.next EXCEPT ![n] = NULL] /\ b.prev = [h.prev EXCEPT ![n] = NULL]
      /\ b.data = [h.data EXCEPT ![n] = x]
  BY NewNodeEffect
<1> HIDE DEF b
<1>3. /\ c \in Heap /\ c.next = [b.next EXCEPT ![last] = n] /\ c.prev = [b.prev EXCEPT ![n] = last]
      /\ c.data = b.data
  <2>1. b \in Heap
    BY <1>2
  <2>2. /\ c \in Heap /\ c.next = [b.next EXCEPT ![last] = n]
        /\ c.prev = IF n = NULL THEN b.prev ELSE [b.prev EXCEPT ![n] = last]
        /\ c.data = b.data
    BY <1>1, <2>1, SetNextEffect
  <2> QED BY <2>2, <1>1
<1> HIDE DEF c
<1>4. /\ a \in Heap /\ a.prev = [c.prev EXCEPT ![n] = last] /\ a.next = [c.next EXCEPT ![last] = n]
      /\ a.data = c.data
  BY <1>1, <1>3, SetPreviousEffect
<1> HIDE DEF a
<1>5. /\ h.next \in [Node -> Pointer] /\ h.prev \in [Node -> Pointer] /\ h.data \in [Node -> Data \union {NULL}]
      /\ b.next \in [Node -> Pointer] /\ b.prev \in [Node -> Pointer]
      /\ c.next \in [Node -> Pointer] /\ c.prev \in [Node -> Pointer]
  BY <1>2, <1>3 DEF Heap
<1>6. \A m \in Node : a.next[m] = IF m = last THEN n ELSE IF m = n THEN NULL ELSE h.next[m]
  BY <1>2, <1>3, <1>4, <1>5
<1>7. \A m \in Node : a.prev[m] = IF m = n THEN last ELSE h.prev[m]
  BY <1>2, <1>3, <1>4, <1>5
<1>8. \A m \in Node : a.data[m] = IF m = n THEN x ELSE h.data[m]
  BY <1>2, <1>3, <1>4, <1>5
<1> QED BY <1>4, <1>6, <1>7, <1>8 DEF a, b, c

\* A removal makes the neighbours of the node each other's, and the node a loner.
LEMMA UnlinkEffect ==
  ASSUME NEW h \in Heap, NEW n \in Node
  PROVE  /\ Unlinked(h, n) \in Heap
         /\ Unlinked(h, n).data = h.data
         /\ \A m \in Node :
              /\ Unlinked(h, n).next[m] = IF m = n THEN NULL
                                          ELSE IF m = h.prev[n] THEN h.next[n] ELSE h.next[m]
              /\ Unlinked(h, n).prev[m] = IF m = n THEN NULL
                                          ELSE IF m = h.next[n] THEN h.prev[n] ELSE h.prev[m]
<1> DEFINE before == h.prev[n]
           after  == h.next[n]
           b == SetNext(h, before, after)
           c == SetPrevious(b, after, before)
           u == [c EXCEPT !.prev[n] = NULL, !.next[n] = NULL]
<1>1. /\ h.next \in [Node -> Pointer] /\ h.prev \in [Node -> Pointer] /\ h.data \in [Node -> Data \union {NULL}]
      /\ before \in Pointer /\ after \in Pointer
  BY DEF Heap
<1>2. Unlinked(h, n) = u
  BY DEF Unlinked
<1> HIDE DEF before, after
<1>3. /\ b \in Heap /\ b.data = h.data
      /\ \A m \in Node :
           /\ b.next[m] = IF m = before THEN after ELSE h.next[m]
           /\ b.prev[m] = IF m = after /\ before # NULL THEN before ELSE h.prev[m]
  <2>1. CASE before = NULL
    <3>1. b = h
      BY <2>1 DEF SetNext
    <3> QED BY <3>1, <2>1, NodeAssumption
  <2>2. CASE before # NULL
    <3>1. before \in Node
      BY <2>2, <1>1 DEF Pointer
    <3>2. /\ b \in Heap /\ b.data = h.data /\ b.next = [h.next EXCEPT ![before] = after]
          /\ b.prev = IF after = NULL THEN h.prev ELSE [h.prev EXCEPT ![after] = before]
      <4>1. after \in Pointer
        BY <1>1
      <4> QED BY <3>1, <4>1, SetNextEffect
    <3> HIDE DEF b
    <3> QED BY <3>2, <1>1, <2>2, NodeAssumption
  <2> QED BY <2>1, <2>2
<1> HIDE DEF b
<1>4. /\ c \in Heap /\ c.data = h.data
      /\ \A m \in Node :
           /\ c.next[m] = IF m = before THEN after ELSE h.next[m]
           /\ c.prev[m] = IF m = after THEN before ELSE h.prev[m]
  <2>1. CASE after = NULL
    <3>1. c = b
      BY <2>1 DEF SetPrevious
    <3> QED BY <3>1, <2>1, <1>3, NodeAssumption
  <2>2. CASE after # NULL
    <3>1. after \in Node
      BY <2>2, <1>1 DEF Pointer
    <3>2. /\ c \in Heap
          /\ c.prev = [b.prev EXCEPT ![after] = before]
          /\ c.next = IF before = NULL THEN b.next ELSE [b.next EXCEPT ![before] = after]
          /\ c.data = b.data
      <4>1. before \in Pointer /\ b \in Heap
        BY <1>1, <1>3
      <4>2. \A m \in Pointer :
              /\ SetPrevious(b, after, m) \in Heap
              /\ SetPrevious(b, after, m).prev = [b.prev EXCEPT ![after] = m]
              /\ SetPrevious(b, after, m).next = IF m = NULL THEN b.next ELSE [b.next EXCEPT ![m] = after]
              /\ SetPrevious(b, after, m).data = b.data
        BY <3>1, <4>1, SetPreviousEffect
      <4> QED BY <4>1, <4>2
    <3>3. b.next \in [Node -> Pointer] /\ b.prev \in [Node -> Pointer]
      BY <1>3 DEF Heap
    <3> HIDE DEF c
    <3>4. \A m \in Node : c.prev[m] = IF m = after THEN before ELSE h.prev[m]
      BY <3>2, <3>3, <1>3
    <3>5. \A m \in Node : c.next[m] = IF m = before THEN after ELSE h.next[m]
      BY <3>2, <3>3, <1>3, NodeAssumption
    <3> QED BY <3>2, <3>4, <3>5, <1>3
  <2> QED BY <2>1, <2>2
<1> HIDE DEF c
<1>5. /\ c.next \in [Node -> Pointer] /\ c.prev \in [Node -> Pointer] /\ c.data \in [Node -> Data \union {NULL}]
      /\ NULL \in Pointer
  BY <1>4 DEF Heap, Pointer
<1>6. u = [next |-> [c.next EXCEPT ![n] = NULL], prev |-> [c.prev EXCEPT ![n] = NULL], data |-> c.data]
  <2>1. u = [c EXCEPT !.prev = [c.prev EXCEPT ![n] = NULL], !.next = [c.next EXCEPT ![n] = NULL]]
    BY <1>4 DEF Heap
  <2> HIDE DEF u
  <2> QED BY <2>1, <1>4 DEF Heap
<1>7. /\ [c.next EXCEPT ![n] = NULL] \in [Node -> Pointer]
      /\ [c.prev EXCEPT ![n] = NULL] \in [Node -> Pointer]
  BY <1>5
<1>8. u \in Heap /\ u.data = h.data
  BY <1>4, <1>5, <1>6, <1>7 DEF Heap
<1>9. u.next = [c.next EXCEPT ![n] = NULL] /\ u.prev = [c.prev EXCEPT ![n] = NULL]
  BY <1>6
<1> HIDE DEF u
<1>10. \A m \in Node : /\ u.next[m] = IF m = n THEN NULL ELSE IF m = before THEN after ELSE h.next[m]
                       /\ u.prev[m] = IF m = n THEN NULL ELSE IF m = after THEN before ELSE h.prev[m]
  BY <1>4, <1>5, <1>9
<1> QED BY <1>2, <1>8, <1>10 DEF before, after

-----------------------------------------------------------------------------
(* What they do to the list.                                               *)

\* A node hung on the last one is the last one.
LEMMA LeadsToAppended ==
  ASSUME NEW r, NEW next, NEW after, NEW p \in Seq(Node), NEW n \in Node,
         IsInjective(p), Leads(r, next, p), Len(p) # 0, \A i \in 1..Len(p) : p[i] # n,
         \A m \in Node : after[m] = IF m = p[Len(p)] THEN n ELSE IF m = n THEN NULL ELSE next[m]
  PROVE  IsInjective(Append(p, n)) /\ Leads(r, after, Append(p, n))
<1> DEFINE q == Append(p, n)
           last == Len(p)
<1>1. last \in Nat /\ last # 0 /\ DOMAIN p = 1..last /\ \A i \in 1..last : p[i] \in Node
  OBVIOUS
<1>2. /\ q \in Seq(Node) /\ Len(q) = last + 1 /\ DOMAIN q = 1..(last + 1)
      /\ \A i \in 1..last : q[i] = p[i]
      /\ q[last + 1] = n
  OBVIOUS
<1>3. \A i, j \in 1..last : p[i] = p[j] => i = j
  BY <1>1 DEF IsInjective
<1>4. /\ r = p[1]
      /\ \A i \in 1..last : next[p[i]] = IF i = last THEN NULL ELSE p[i + 1]
  BY <1>1 DEF Leads
<1> HIDE DEF q, last
<1>5. IsInjective(q)
  <2> SUFFICES ASSUME NEW a \in 1..(last + 1), NEW b \in 1..(last + 1), q[a] = q[b] PROVE a = b
    BY <1>2 DEF IsInjective
  <2>1. CASE a \in 1..last /\ b \in 1..last
    BY <2>1, <1>2, <1>3
  <2>2. CASE a = last + 1 \/ b = last + 1
    <3>1. \A i \in 1..last : q[i] # n
      BY <1>2 DEF last
    <3>2. \A i \in 1..(last + 1) : i \in 1..last \/ i = last + 1
      BY <1>1
    <3> QED BY <2>2, <3>1, <3>2, <1>2
  <2> QED BY <2>1, <2>2, <1>1
<1>6. r = q[1]
  BY <1>1, <1>2, <1>4
<1>7. ASSUME NEW i \in 1..(last + 1) PROVE after[q[i]] = IF i = last + 1 THEN NULL ELSE q[i + 1]
  <2>1. CASE i = last + 1
    <3>1. n # p[last]
      BY <1>1 DEF last
    <3> QED BY <2>1, <3>1, <1>2 DEF last
  <2>2. CASE i = last
    <3>1. i \in 1..last /\ i # last + 1
      BY <2>2, <1>1
    <3> QED BY <2>2, <3>1, <1>1, <1>2 DEF last
  <2>3. CASE i \in 1..last /\ i # last
    <3>1. i + 1 \in 1..last /\ i # last + 1
      BY <2>3, <1>1
    <3>2. last \in 1..last
      BY <1>1
    <3>3. p[i] # p[last] /\ p[i] # n /\ p[i] \in Node
      BY <2>3, <3>2, <1>1, <1>3 DEF last
    <3>4. after[p[i]] = p[i + 1]
      BY <3>3, <2>3, <1>4 DEF last
    <3> QED BY <3>1, <3>4, <2>3, <1>2
  <2> QED BY <2>1, <2>2, <2>3, <1>1
<1> QED BY <1>1, <1>2, <1>5, <1>6, <1>7 DEF Leads, q

\* A list from which a node behind the root was unlinked is the list without it.
LEMMA LeadsToRemaining ==
  ASSUME NEW r, NEW next, NEW after, NEW p \in Seq(Node), NEW i \in 2..Len(p),
         IsInjective(p), Leads(r, next, p),
         \A m \in Node : after[m] = IF m = p[i] THEN NULL
                                    ELSE IF m = p[i - 1] THEN next[p[i]] ELSE next[m]
  PROVE  IsInjective(RemoveAt(p, i)) /\ Leads(r, after, RemoveAt(p, i))
<1> DEFINE q == RemoveAt(p, i)
           last == Len(p)
<1>0. last \in Nat /\ DOMAIN p = 1..last /\ \A j \in 1..last : p[j] \in Node
  OBVIOUS
<1>1. /\ last \in Nat /\ last >= 2 /\ DOMAIN p = 1..last /\ i \in 1..last
      /\ \A j \in 1..last : p[j] \in Node
  <2>1. i \in 2..last
    OBVIOUS
  <2> HIDE DEF last, q
  <2>2. last >= 2 /\ i \in 1..last
    BY <1>0, <2>1
  <2> QED BY <1>0, <2>2
<1>2. /\ q \in Seq(Node) /\ Len(q) = last - 1
      /\ \A j \in 1..(last - 1) : q[j] = IF j < i THEN p[j] ELSE p[j + 1]
  <2>1. p \in Seq(Node) /\ i \in DOMAIN p
    BY <1>1
  <2> QED BY <2>1, RemoveAtItems
<1>3. \A j, l \in 1..last : p[j] = p[l] => j = l
  BY <1>1 DEF IsInjective
<1>4. /\ r = p[1]
      /\ \A j \in 1..last : next[p[j]] = IF j = last THEN NULL ELSE p[j + 1]
  <2>1. /\ r = IF last = 0 THEN NULL ELSE p[1]
        /\ \A j \in 1..last : next[p[j]] = IF j = last THEN NULL ELSE p[j + 1]
    BY DEF Leads
  <2> HIDE DEF last, q
  <2>2. last # 0
    BY <1>1
  <2> QED BY <2>1, <2>2
<1> HIDE DEF q, last
<1>5. DOMAIN q = 1..(last - 1)
  BY <1>2
<1>6. IsInjective(q)
  <2> SUFFICES ASSUME NEW a \in 1..(last - 1), NEW b \in 1..(last - 1), q[a] = q[b] PROVE a = b
    BY <1>5 DEF IsInjective
  <2> DEFINE from(j) == IF j < i THEN j ELSE j + 1
  <2>1. from(a) \in 1..last /\ from(b) \in 1..last
    BY <1>1
  <2>2. q[a] = p[from(a)] /\ q[b] = p[from(b)]
    BY <1>2
  <2>3. from(a) = from(b)
    <3> HIDE DEF from
    <3> QED BY <2>1, <2>2, <1>3
  <2> QED BY <2>3, <1>1
<1>7. r = q[1] /\ last - 1 # 0
  BY <1>1, <1>2, <1>4
<1>8. ASSUME NEW j \in 1..(last - 1) PROVE after[q[j]] = IF j = last - 1 THEN NULL ELSE q[j + 1]
  <2>0. i - 1 \in 1..last /\ i - 1 # i
    BY <1>1
  <2>1. CASE j < i - 1
    <3>1. j \in 1..last /\ j # i /\ j # i - 1 /\ j < i /\ j + 1 < i /\ j + 1 \in 1..(last - 1) /\ j # last /\ j # last - 1
      BY <2>1, <1>1
    <3>2. p[j] # p[i] /\ p[j] # p[i - 1] /\ p[j] \in Node
      BY <3>1, <2>0, <1>1, <1>3
    <3>3. after[p[j]] = p[j + 1]
      BY <3>1, <3>2, <1>4
    <3> QED BY <3>1, <3>3, <1>2
  <2>2. CASE j = i - 1
    <3>1. j < i /\ j \in 1..last /\ (j = last - 1 <=> i = last)
      BY <2>2, <1>1
    <3>2. p[j] # p[i] /\ p[j] = p[i - 1] /\ p[j] \in Node
      BY <3>1, <2>0, <2>2, <1>1, <1>3
    <3>3. after[p[j]] = IF i = last THEN NULL ELSE p[i + 1]
      BY <3>2, <1>1, <1>4
    <3>4. i # last => j + 1 \in 1..(last - 1) /\ ~(j + 1 < i) /\ (j + 1) + 1 = i + 1
      BY <2>2, <1>1
    <3>5. i # last => q[j + 1] = p[i + 1]
      BY <3>4, <1>2
    <3> QED BY <3>1, <3>3, <3>5, <1>2
  <2>3. CASE ~(j < i)
    <3>1. j + 1 \in 1..last /\ j + 1 # i /\ j + 1 # i - 1 /\ (j = last - 1 <=> j + 1 = last)
      BY <2>3, <1>1
    <3>2. p[j + 1] # p[i] /\ p[j + 1] # p[i - 1] /\ p[j + 1] \in Node
      BY <3>1, <2>0, <1>1, <1>3
    <3>3. after[p[j + 1]] = IF j + 1 = last THEN NULL ELSE p[(j + 1) + 1]
      BY <3>1, <3>2, <1>4
    <3>4. j # last - 1 => j + 1 \in 1..(last - 1) /\ ~(j + 1 < i)
      BY <2>3, <1>1
    <3>5. j # last - 1 => q[j + 1] = p[(j + 1) + 1]
      BY <3>4, <1>2
    <3> QED BY <3>1, <3>3, <3>5, <2>3, <1>2
  <2> QED BY <2>1, <2>2, <2>3, <1>1
<1> QED BY <1>2, <1>6, <1>7, <1>8 DEF Leads, q

\* A root that leads through some nodes to the end leads through its path.
LEMMA ListFound ==
  ASSUME NEW p \in Seq(Node), IsInjective(p), Leads(root', heap'.next, p),
         \A i \in 2..Len(p) : heap'.prev[p[i]] = p[i - 1] /\ p[i] \in allocated',
         ~damaged' /\ root' # NULL => root' \in allocated' /\ heap'.prev[root'] = NULL
  PROVE  LinkedBehindRoot' /\ Path' = p /\ ~Cyclic'
<1>1. PathOf(root', heap'.next) = p /\ Hops(root', heap'.next)[Cardinality(Node)] = NULL
  BY PathOfList
<1>2. Path' = p /\ ~Cyclic'
  BY <1>1 DEF Path, Cyclic
<1> QED BY <1>2 DEF LinkedBehindRoot

\* The nodes of a list: which they are, and where the root is.
LEMMA ListNodes ==
  ASSUME TypeOK, LinkedBehindRoot
  PROVE  /\ Path \in Seq(Node) /\ Len(Path) \in Nat /\ DOMAIN Path = 1..Len(Path)
         /\ \A i \in 1..Len(Path) : Path[i] \in Node /\ Path[i] # NULL
         /\ \A i, j \in 1..Len(Path) : Path[i] = Path[j] => i = j
         /\ root = IF Len(Path) = 0 THEN NULL ELSE Path[1]
         /\ \A i \in 1..Len(Path) : heap.next[Path[i]] = IF i = Len(Path) THEN NULL ELSE Path[i + 1]
         /\ \A i \in 2..Len(Path) : heap.prev[Path[i]] = Path[i - 1] /\ Path[i] \in allocated
         /\ ~Cyclic
<1>1. Path \in Seq(Node) /\ IsInjective(Path) /\ Leads(root, heap.next, Path)
  BY DEF LinkedBehindRoot
<1>2. Len(Path) \in Nat /\ DOMAIN Path = 1..Len(Path) /\ \A i \in 1..Len(Path) : Path[i] \in Node
  BY <1>1
<1>3. \A i \in 1..Len(Path) : Path[i] # NULL
  BY <1>2, NodeAssumption
<1>4. \A i, j \in 1..Len(Path) : Path[i] = Path[j] => i = j
  BY <1>1, <1>2 DEF IsInjective
<1>5. /\ root = IF Len(Path) = 0 THEN NULL ELSE Path[1]
      /\ \A i \in 1..Len(Path) : heap.next[Path[i]] = IF i = Len(Path) THEN NULL ELSE Path[i + 1]
  BY <1>1 DEF Leads
<1>6. \A i \in 2..Len(Path) : heap.prev[Path[i]] = Path[i - 1] /\ Path[i] \in allocated
  BY DEF LinkedBehindRoot
<1>7. ~Cyclic
  <2>1. Hops(root, heap.next)[Cardinality(Node)] = NULL
    BY <1>1, PathOfList
  <2> QED BY <2>1 DEF Cyclic
<1> QED BY <1>1, <1>2, <1>3, <1>4, <1>5, <1>6, <1>7

\* Unlinking the node at position i, freed or not, leaves the root alone if it was
\* that node, and otherwise the list without it.
LEMMA UnlinkStep ==
  ASSUME TypeOK, LinkedBehindRoot, NEW i \in DOMAIN Path,
         heap' = Unlinked(heap, Path[i]), root' = root,
         allocated' \in {allocated, allocated \ {Path[i]}},
         damaged' = (damaged \/ Path[i] = root)
  PROVE  /\ heap' \in Heap /\ heap'.data = heap.data
         /\ LinkedBehindRoot' /\ ~Cyclic'
         /\ Path' = IF i = 1 THEN <<Path[1]>> ELSE RemoveAt(Path, i)
<1> DEFINE last == Len(Path)
           n == Path[i]
<1>1. /\ Path \in Seq(Node) /\ last \in Nat /\ DOMAIN Path = 1..last
      /\ \A j \in 1..last : Path[j] \in Node /\ Path[j] # NULL
      /\ \A j, l \in 1..last : Path[j] = Path[l] => j = l
      /\ root = IF last = 0 THEN NULL ELSE Path[1]
      /\ \A j \in 1..last : heap.next[Path[j]] = IF j = last THEN NULL ELSE Path[j + 1]
      /\ \A j \in 2..last : heap.prev[Path[j]] = Path[j - 1] /\ Path[j] \in allocated
  BY ListNodes
<1>0. last \in Nat /\ i \in 1..last
  <2>1. DOMAIN Path = 1..last
    BY <1>1
  <2>2. last \in Nat
    BY <1>1
  <2> HIDE DEF last
  <2> QED BY <2>1, <2>2
<1>2. i \in 1..last /\ last # 0 /\ n \in Node /\ root = Path[1] /\ root \in Node
  <2>1. last # 0 /\ 1 \in 1..last
    <3> HIDE DEF last
    <3> QED BY <1>0
  <2>2. n \in Node /\ Path[1] \in Node
    BY <1>0, <1>1, <2>1
  <2>3. root = Path[1]
    BY <1>1, <2>1
  <2> QED BY <1>0, <2>1, <2>2, <2>3
<1>3. heap \in Heap
  BY DEF TypeOK
<1>4. /\ heap' \in Heap /\ heap'.data = heap.data
      /\ \A m \in Node :
           /\ heap'.next[m] = IF m = n THEN NULL ELSE IF m = heap.prev[n] THEN heap.next[n] ELSE heap.next[m]
           /\ heap'.prev[m] = IF m = n THEN NULL ELSE IF m = heap.next[n] THEN heap.prev[n] ELSE heap.prev[m]
  BY <1>2, <1>3, UnlinkEffect
<1>5. CASE i = 1
  <2> DEFINE q == <<root>>
  <2>1. q \in Seq(Node) /\ Len(q) = 1 /\ q[1] = root
    BY <1>2
  <2>2. IsInjective(q)
    BY <2>1 DEF IsInjective
  <2>3. n = root /\ heap'.next[root] = NULL /\ damaged'
    BY <1>2, <1>4, <1>5
  <2>4. Leads(root', heap'.next, q)
    BY <2>1, <2>3 DEF Leads
  <2>5. \A j \in 2..Len(q) : FALSE
    BY <2>1
  <2> HIDE DEF q
  <2>6. LinkedBehindRoot' /\ Path' = q /\ ~Cyclic'
    BY <2>1, <2>2, <2>3, <2>4, <2>5, ListFound
  <2> QED BY <2>6, <1>2, <1>4, <1>5 DEF q
<1>6. CASE i # 1
  <2> DEFINE q == RemoveAt(Path, i)
  <2>1. i \in 2..last /\ i - 1 \in 1..last /\ 1 \in 1..last
    <3> HIDE DEF last
    <3> QED BY <1>0, <1>6
  <2>2. heap.prev[n] = Path[i - 1] /\ n # root
    <3>1. heap.prev[n] = Path[i - 1]
      BY <2>1, <1>1
    <3>2. Path[i] # Path[1]
      BY <2>1, <1>0, <1>1, <1>6
    <3> QED BY <3>1, <3>2, <1>2
  <2>3. \A m \in Node : heap'.next[m] = IF m = Path[i] THEN NULL
                                        ELSE IF m = Path[i - 1] THEN heap.next[Path[i]] ELSE heap.next[m]
    BY <1>4, <2>2
  <2>4. IsInjective(q) /\ Leads(root, heap'.next, q)
    <3>1. IsInjective(Path) /\ Leads(root, heap.next, Path)
      BY DEF LinkedBehindRoot
    <3>2. Path \in Seq(Node)
      BY <1>1
    <3> HIDE DEF q
    <3> QED BY <3>1, <3>2, <2>1, <2>3, LeadsToRemaining DEF q
  <2>5. /\ q \in Seq(Node) /\ Len(q) = last - 1
        /\ \A j \in 1..(last - 1) : q[j] = IF j < i THEN Path[j] ELSE Path[j + 1]
    <3>1. Path \in Seq(Node) /\ i \in DOMAIN Path
      BY <1>1
    <3> QED BY <3>1, RemoveAtItems
  <2> HIDE DEF q, last
  <2>6. ASSUME NEW j \in 2..Len(q) PROVE heap'.prev[q[j]] = q[j - 1] /\ q[j] \in allocated'
    <3>0. j \in 1..(last - 1) /\ j - 1 \in 1..(last - 1) /\ j \in 2..last /\ j + 1 \in 2..last
      BY <2>5, <1>1
    <3>1. CASE j < i
      <4>1. q[j] = Path[j] /\ q[j - 1] = Path[j - 1]
        BY <3>0, <3>1, <2>1, <2>5
      <4>2. Path[j] # n /\ Path[j] # heap.next[n] /\ Path[j] \in Node
        <5>1. heap.next[n] = IF i = last THEN NULL ELSE Path[i + 1]
          BY <1>1, <1>2
        <5>2. j \in 1..last /\ j # i /\ j # i + 1 /\ (i # last => i + 1 \in 1..last)
          BY <3>0, <3>1, <1>1, <1>2
        <5> QED BY <5>1, <5>2, <1>1, <1>2
      <4>3. heap'.prev[Path[j]] = heap.prev[Path[j]]
        BY <4>2, <1>4
      <4> QED BY <4>1, <4>2, <4>3, <3>0, <1>1
    <3>2. CASE j = i
      <4>1. q[j] = Path[i + 1] /\ q[j - 1] = Path[i - 1]
        BY <3>0, <3>2, <2>1, <2>5
      <4>2. i + 1 \in 1..last /\ i # last /\ i # i + 1
        BY <3>0, <3>2, <1>1
      <4>3. heap.next[n] = Path[i + 1] /\ Path[i + 1] # n /\ Path[i + 1] \in Node
        BY <4>2, <1>1, <1>2
      <4> QED BY <4>1, <4>3, <3>0, <3>2, <2>2, <1>1, <1>4
    <3>3. CASE j > i
      <4>1. q[j] = Path[j + 1] /\ q[j - 1] = Path[j]
        <5>1. ~(j < i) /\ ~(j - 1 < i) /\ (j - 1) + 1 = j
          BY <3>0, <3>3, <1>1, <1>2
        <5> QED BY <3>0, <5>1, <2>5
      <4>2. Path[j + 1] # n /\ Path[j + 1] # heap.next[n] /\ Path[j + 1] \in Node
        <5>1. heap.next[n] = IF i = last THEN NULL ELSE Path[i + 1]
          BY <1>1, <1>2
        <5>2. j + 1 \in 1..last /\ j + 1 # i /\ j + 1 # i + 1 /\ (i # last => i + 1 \in 1..last)
          BY <3>0, <3>3, <1>1, <1>2
        <5> QED BY <5>1, <5>2, <1>1, <1>2
      <4>3. heap'.prev[Path[j + 1]] = heap.prev[Path[j + 1]]
        BY <4>2, <1>4
      <4>4. heap.prev[Path[j + 1]] = Path[j] /\ Path[j + 1] \in allocated
        <5>1. (j + 1) - 1 = j
          BY <3>0
        <5> QED BY <5>1, <3>0, <1>1
      <4> QED BY <4>1, <4>2, <4>3, <4>4
    <3> QED BY <3>0, <3>1, <3>2, <3>3, <1>2
  <2>7. ASSUME ~damaged', root' # NULL PROVE root' \in allocated' /\ heap'.prev[root'] = NULL
    <3>1. ~damaged /\ root \in allocated /\ heap.prev[root] = NULL
      BY <2>7, <1>2, NodeAssumption DEF LinkedBehindRoot
    <3>2. heap.next[n] # root
      <4>1. heap.next[n] = IF i = last THEN NULL ELSE Path[i + 1]
        BY <1>1, <1>2
      <4>2. i # last => i + 1 \in 1..last /\ i + 1 # 1 /\ 1 \in 1..last
        BY <1>1, <1>2
      <4> QED BY <4>1, <4>2, <1>1, <1>2, NodeAssumption
    <3> QED BY <3>1, <3>2, <2>2, <1>2, <1>4
  <2>8. LinkedBehindRoot' /\ Path' = q /\ ~Cyclic'
    BY <2>4, <2>5, <2>6, <2>7, ListFound
  <2> QED BY <2>8, <1>4, <1>6 DEF q
<1> QED BY <1>5, <1>6

Freed == root # NULL /\ root \notin allocated

\* What an append comes to: the new node is last, or it took the address of the freed
\* root and is the list, or its own successor.
Appended(n) ==
  \/ /\ LinkedBehindRoot' /\ ~Cyclic' /\ Path' = Append(Path, n)
     /\ Freed' <=> Freed
     /\ \A i \in 1..Len(Path) : Path[i] # n
  \/ /\ LinkedBehindRoot' /\ ~Cyclic' /\ Path' = <<n>>
     /\ Freed /\ ~Freed' /\ Len(Path) > 1
  \/ LeadsToItself' /\ Freed /\ ~Freed' /\ Len(Path) = 1 /\ root' = n

LEMMA AppendStep ==
  ASSUME TypeOK, LinkedBehindRoot, NEW x \in Data, NEW n \in Node, list_append(x, n)
  PROVE  /\ heap' \in Heap /\ root' \in Pointer
         /\ \A m \in Node : heap'.data[m] = IF m = n THEN x ELSE heap.data[m]
         /\ Appended(n)
<1> DEFINE last == Len(Path)
<1>0. Path \in Seq(Node)
  BY DEF LinkedBehindRoot
<1>1. /\ last \in Nat /\ DOMAIN Path = 1..last
      /\ \A j \in 1..last : Path[j] \in Node /\ Path[j] # NULL
      /\ root = IF last = 0 THEN NULL ELSE Path[1]
      /\ \A j \in 2..last : heap.prev[Path[j]] = Path[j - 1] /\ Path[j] \in allocated
  BY ListNodes
<1>2. heap \in Heap /\ root \in Pointer /\ n # NULL /\ n \in Pointer
  BY NodeAssumption DEF TypeOK, Pointer
<1>3. n \notin allocated /\ allocated' = allocated \union {n} /\ damaged' = damaged
  BY DEF list_append
<1>4. CASE last = 0
  <2> DEFINE q == <<n>>
  <2>1. root = NULL
    BY <1>1, <1>4
  <2>2. root' = n /\ heap' = NewNode(heap, n, x)
    BY <2>1 DEF list_append, LastNode
  <2>3. /\ heap' \in Heap
        /\ heap'.next = [heap.next EXCEPT ![n] = NULL] /\ heap'.prev = [heap.prev EXCEPT ![n] = NULL]
        /\ heap'.data = [heap.data EXCEPT ![n] = x]
    BY <1>2, <2>2, NewNodeEffect
  <2>4. /\ heap.next \in [Node -> Pointer] /\ heap.prev \in [Node -> Pointer]
        /\ heap.data \in [Node -> Data \union {NULL}]
    BY <1>2 DEF Heap
  <2>5. /\ heap'.next[n] = NULL /\ heap'.prev[n] = NULL
        /\ \A m \in Node : heap'.data[m] = IF m = n THEN x ELSE heap.data[m]
    BY <2>3, <2>4
  <2>6. q \in Seq(Node) /\ Len(q) = 1 /\ q[1] = n
    OBVIOUS
  <2>7. IsInjective(q) /\ Leads(root', heap'.next, q) /\ \A j \in 2..Len(q) : FALSE
    <3>1. heap'.next[n] = NULL /\ root' = n
      BY <2>2, <2>5
    <3> QED BY <3>1, <2>6 DEF IsInjective, Leads
  <2>8. Append(Path, n) = q
    <3>1. Path = <<>>
      BY <1>0, <1>4, EmptySeq
    <3> QED BY <3>1
  <2> HIDE DEF q
  <2>9. LinkedBehindRoot' /\ Path' = q /\ ~Cyclic'
    <3>1. root' \in allocated' /\ heap'.prev[root'] = NULL
      BY <1>3, <2>2, <2>5
    <3> QED BY <2>6, <2>7, <3>1, ListFound
  <2>10. Freed' <=> Freed
    BY <1>3, <2>1, <2>2 DEF Freed
  <2>11. \A i \in 1..last : Path[i] # n
    BY <1>4
  <2> QED BY <1>2, <2>2, <2>3, <2>5, <2>8, <2>9, <2>10, <2>11 DEF Appended
<1>5. CASE last # 0
  <2> DEFINE end == Path[last]
  <2>1. 1 \in 1..last /\ last \in 1..last
    <3>1. last \in Nat
      BY <1>1
    <3> HIDE DEF last
    <3> QED BY <3>1, <1>5
  <2>2. root = Path[1] /\ root # NULL /\ root \in Node /\ end \in Node /\ LastNode = end /\ end # NULL
    <3>1. root = Path[1] /\ Path[1] \in Node /\ Path[1] # NULL /\ Path[last] \in Node /\ Path[last] # NULL
      BY <1>1, <1>5, <2>1
    <3> QED BY <3>1 DEF LastNode
  <2>3. heap' = SetPrevious(SetNext(NewNode(heap, n, x), end, n), n, end) /\ root' = root
    BY <2>2 DEF list_append
  <2> HIDE DEF end
  <2>4. /\ heap' \in Heap
        /\ \A m \in Node :
             /\ heap'.next[m] = IF m = end THEN n ELSE IF m = n THEN NULL ELSE heap.next[m]
             /\ heap'.prev[m] = IF m = n THEN end ELSE heap.prev[m]
             /\ heap'.data[m] = IF m = n THEN x ELSE heap.data[m]
    <3>1. LET a == SetPrevious(SetNext(NewNode(heap, n, x), end, n), n, end) IN
            /\ a \in Heap
            /\ \A m \in Node :
                 /\ a.next[m] = IF m = end THEN n ELSE IF m = n THEN NULL ELSE heap.next[m]
                 /\ a.prev[m] = IF m = n THEN end ELSE heap.prev[m]
                 /\ a.data[m] = IF m = n THEN x ELSE heap.data[m]
      <4>1. heap \in Heap /\ end \in Node
        BY <1>2, <2>2
      <4> QED BY <4>1, AppendEffect
    <3> QED BY <3>1, <2>3
  <2>5. \A j \in 2..last : Path[j] # n
    BY <1>1, <1>3
  <2>6. CASE n # root
    <3> DEFINE q == Append(Path, n)
    <3>1. \A j \in 1..last : Path[j] # n
      <4>1. \A j \in 1..last : j = 1 \/ j \in 2..last
        <5>1. last \in Nat
          BY <1>1
        <5> HIDE DEF last
        <5> QED BY <5>1
      <4> QED BY <4>1, <2>2, <2>5, <2>6
    <3>2. \A m \in Node : heap'.next[m] = IF m = Path[last] THEN n ELSE IF m = n THEN NULL ELSE heap.next[m]
      BY <2>4 DEF end
    <3>3. IsInjective(q) /\ Leads(root, heap'.next, q)
      <4>1. IsInjective(Path) /\ Leads(root, heap.next, Path)
        BY DEF LinkedBehindRoot
      <4> HIDE DEF q
      <4> QED BY <4>1, <1>0, <1>5, <3>1, <3>2, LeadsToAppended DEF q
    <3>4. q \in Seq(Node) /\ Len(q) = last + 1 /\ q[last + 1] = n /\ \A j \in 1..last : q[j] = Path[j]
      BY <1>0
    <3>5. last \in Nat
      BY <1>1
    <3> HIDE DEF q, last
    <3>6. ASSUME NEW j \in 2..Len(q) PROVE heap'.prev[q[j]] = q[j - 1] /\ q[j] \in allocated'
      <4>1. CASE j = last + 1
        <5>1. j - 1 = last /\ q[j] = n /\ q[j - 1] = Path[last]
          BY <4>1, <3>4, <3>5, <2>1
        <5> QED BY <5>1, <2>4, <1>3 DEF end
      <4>2. CASE j # last + 1
        <5>1. j \in 2..last /\ j \in 1..last /\ j - 1 \in 1..last
          BY <4>2, <3>4, <3>5
        <5>2. q[j] = Path[j] /\ q[j - 1] = Path[j - 1] /\ Path[j] # n /\ Path[j] \in Node
          BY <5>1, <3>1, <3>4, <1>1
        <5>3. heap.prev[Path[j]] = Path[j - 1] /\ Path[j] \in allocated
          BY <5>1, <1>1
        <5> QED BY <5>2, <5>3, <2>4, <1>3
      <4> QED BY <4>1, <4>2
    <3>7. ASSUME ~damaged', root' # NULL PROVE root' \in allocated' /\ heap'.prev[root'] = NULL
      <4>1. root \in allocated /\ heap.prev[root] = NULL
        BY <3>7, <1>3, <2>2 DEF LinkedBehindRoot
      <4> QED BY <4>1, <2>2, <2>3, <2>4, <2>6, <1>3
    <3>8. LinkedBehindRoot' /\ Path' = q /\ ~Cyclic'
      BY <2>3, <3>3, <3>4, <3>6, <3>7, ListFound
    <3>9. Freed' <=> Freed
      BY <1>3, <2>3, <2>6 DEF Freed
    <3> QED BY <1>2, <2>3, <2>4, <3>1, <3>8, <3>9 DEF Appended, q, last
  <2>7. CASE n = root /\ last > 1
    <3> DEFINE q == <<n>>
    <3>1. end # n
      <4>1. last \in 2..last
        <5>1. last \in Nat
          BY <1>1
        <5> HIDE DEF last
        <5> QED BY <5>1, <2>7
      <4> QED BY <4>1, <2>5 DEF end
    <3>2. heap'.next[n] = NULL
      BY <3>1, <2>4
    <3>3. q \in Seq(Node) /\ Len(q) = 1 /\ q[1] = n
      OBVIOUS
    <3>4. IsInjective(q) /\ Leads(root', heap'.next, q) /\ \A j \in 2..Len(q) : FALSE
      BY <2>3, <2>7, <3>2, <3>3 DEF IsInjective, Leads
    <3>5. damaged'
      BY <1>3, <2>2, <2>7 DEF LinkedBehindRoot
    <3> HIDE DEF q
    <3>6. LinkedBehindRoot' /\ Path' = q /\ ~Cyclic'
      BY <3>3, <3>4, <3>5, ListFound
    <3>7. Freed /\ ~Freed'
      BY <1>3, <2>2, <2>3, <2>7 DEF Freed
    <3> QED BY <1>2, <2>3, <2>4, <2>7, <3>6, <3>7 DEF Appended, q
  <2>8. CASE n = root /\ last = 1
    <3>1. end = n
      BY <2>2, <2>8 DEF end
    <3>2. heap'.next[root'] = root'
      BY <3>1, <2>2, <2>3, <2>4, <2>8
    <3>3. damaged' /\ root' \in allocated'
      BY <1>3, <2>2, <2>3, <2>8 DEF LinkedBehindRoot
    <3>4. Freed /\ ~Freed'
      BY <1>3, <2>2, <2>3, <2>8 DEF Freed
    <3> QED BY <1>2, <2>3, <2>4, <2>8, <3>2, <3>3, <3>4 DEF Appended, LeadsToItself
  <2> HIDE DEF end
  <2>9. last = 1 \/ last > 1
    <3>1. last \in Nat
      BY <1>1
    <3> HIDE DEF last
    <3> QED BY <3>1, <1>5
  <2> QED BY <2>6, <2>7, <2>8, <2>9
<1> QED BY <1>4, <1>5

-----------------------------------------------------------------------------
(* The theorems.                                                           *)

\* A list whose root follows itself is the root, for ever.
LEMMA Stuck ==
  ASSUME TypeOK, LeadsToItself
  PROVE  Cyclic /\ Path = <<root>>
<1>1. root \in Node /\ root # NULL /\ heap.next[root] = root
  BY NodeAssumption DEF TypeOK, LeadsToItself
<1>2. PathOf(root, heap.next) = <<root>> /\ Hops(root, heap.next)[Cardinality(Node)] = root
  BY <1>1, PathOfLoop
<1> QED BY <1>1, <1>2 DEF Cyclic, Path

\* Every step of the list is the append or the removal of a node, or ends in a crash.
LEMMA ListSteps ==
  ASSUME IInv, Next
  PROVE  /\ LinkedBehindRoot /\ fate = "sound"
         /\ \/ \E x \in Data, n \in Node : list_append(x, n)
            \/ \E x \in Data : list_remove_item(x)
            \/ \E position \in 0..Cardinality(Node) : list_remove(position)
            \/ fate' = "crashed" /\ UNCHANGED <<heap, allocated, root, damaged>>
<1>1. Usable
  BY DEF Next, list_append, list_remove_item, list_remove, list_insert, OutOfMemory
<1>2. LinkedBehindRoot
  <2>1. ~LeadsToItself
    BY <1>1, Stuck DEF IInv, Usable
  <2> QED BY <2>1 DEF IInv
<1>3. \/ \E x \in Data, n \in Node : list_append(x, n)
      \/ \E x \in Data : list_remove_item(x)
      \/ \E position \in 0..Cardinality(Node) : list_remove(position)
      \/ fate' = "crashed" /\ UNCHANGED <<heap, allocated, root, damaged>>
  BY DEF Next, list_insert, OutOfMemory
<1> QED BY <1>1, <1>2, <1>3 DEF Usable

\* list_remove unlinks the node at its position.
LEMMA PositionRemoved ==
  ASSUME TypeOK, LinkedBehindRoot, NEW position \in 0..Cardinality(Node), list_remove(position)
  PROVE  \E i \in DOMAIN Path :
           /\ heap' = Unlinked(heap, Path[i]) /\ allocated' = allocated
           /\ damaged' = (damaged \/ Path[i] = root) /\ root' = root /\ fate' = fate
<1>1. Len(Path) \in Nat /\ DOMAIN Path = 1..Len(Path)
  BY ListNodes
<1>2. position < Len(Path)
  BY DEF list_remove
<1>3. position \in Nat
  BY FS_CardinalityType, NodeAssumption
<1>4. position + 1 \in DOMAIN Path
  BY <1>1, <1>2, <1>3
<1>5. /\ heap' = Unlinked(heap, Path[position + 1]) /\ allocated' = allocated
      /\ damaged' = (damaged \/ Path[position + 1] = root) /\ root' = root /\ fate' = fate
  BY DEF list_remove
<1> QED BY <1>4, <1>5

\* The operations leave a list that a traversal can read, or one it never leaves.
THEOREM Invariance == Spec => []IInv
<1>1. Init => IInv
  <2> SUFFICES ASSUME Init PROVE IInv
    OBVIOUS
  <2>1. TypeOK
    BY DEF Init, TypeOK, Heap, Pointer
  <2>2. Path = <<>>
    <3>1. <<>> \in Seq(Node) /\ Len(<<>>) = 0
      OBVIOUS
    <3>2. IsInjective(<<>>) /\ Leads(root, heap.next, <<>>)
      BY <3>1 DEF IsInjective, Leads, Init
    <3>3. PathOf(root, heap.next) = <<>>
      BY <3>1, <3>2, PathOfList
    <3> QED BY <3>3 DEF Path
  <2>3. LinkedBehindRoot
    BY <2>2 DEF LinkedBehindRoot, Leads, IsInjective, Init
  <2> QED BY <2>1, <2>3 DEF IInv
<1>2. IInv /\ [Next]_vars => IInv'
  <2> SUFFICES ASSUME IInv, [Next]_vars PROVE IInv'
    OBVIOUS
  <2>1. CASE UNCHANGED vars
    <3>1. Path' = Path
      BY <2>1 DEF vars, Path
    <3> QED BY <2>1, <3>1 DEF vars, IInv, TypeOK, LinkedBehindRoot, LeadsToItself
  <2>2. CASE Next
    <3>0. TypeOK /\ LinkedBehindRoot /\ fate = "sound"
      BY <2>2, ListSteps DEF IInv
    <3>1. CASE \E x \in Data, n \in Node : list_append(x, n)
      <4>1. PICK x \in Data, n \in Node : list_append(x, n)
        BY <3>1
      <4>2. /\ heap' \in Heap /\ root' \in Pointer
            /\ \A m \in Node : heap'.data[m] = IF m = n THEN x ELSE heap.data[m]
            /\ Appended(n)
        BY <3>0, <4>1, AppendStep
      <4>3. TypeOK'
        BY <3>0, <4>1, <4>2 DEF list_append, TypeOK
      <4> QED BY <4>2, <4>3 DEF Appended, IInv
    <3>2. CASE \E x \in Data : list_remove_item(x)
      <4>1. PICK x \in Data : list_remove_item(x)
        BY <3>2
      <4>2. PICK i \in DOMAIN Path :
              /\ heap' = Unlinked(heap, Path[i]) /\ allocated' = allocated \ {Path[i]}
              /\ damaged' = (damaged \/ Path[i] = root) /\ root' = root /\ fate' = fate
        BY <4>1 DEF list_remove_item
      <4>3. heap' \in Heap /\ heap'.data = heap.data /\ LinkedBehindRoot'
        BY <3>0, <4>2, UnlinkStep
      <4>4. TypeOK'
        BY <3>0, <4>2, <4>3 DEF TypeOK
      <4> QED BY <4>3, <4>4 DEF IInv
    <3>3. CASE \E position \in 0..Cardinality(Node) : list_remove(position)
      <4>1. PICK position \in 0..Cardinality(Node) : list_remove(position)
        BY <3>3
      <4>2. PICK i \in DOMAIN Path :
              /\ heap' = Unlinked(heap, Path[i]) /\ allocated' = allocated
              /\ damaged' = (damaged \/ Path[i] = root) /\ root' = root /\ fate' = fate
        BY <3>0, <4>1, PositionRemoved
      <4>3. heap' \in Heap /\ heap'.data = heap.data /\ LinkedBehindRoot'
        BY <3>0, <4>2, UnlinkStep
      <4>4. TypeOK'
        BY <3>0, <4>2, <4>3 DEF TypeOK
      <4> QED BY <4>3, <4>4 DEF IInv
    <3>4. CASE fate' = "crashed" /\ UNCHANGED <<heap, allocated, root, damaged>>
      <4>1. Path' = Path
        BY <3>4 DEF Path
      <4> QED BY <3>0, <3>4, <4>1 DEF IInv, TypeOK, LinkedBehindRoot
    <3> QED BY <2>2, <3>1, <3>2, <3>3, <3>4, ListSteps
  <2> QED BY <2>1, <2>2
<1> QED BY <1>1, <1>2, PTL DEF Spec

\* The pointers stay pointers, and what is allocated has data.
THEOREM TypeCorrect == Spec => []TypeOK
<1>1. IInv => TypeOK
  BY DEF IInv
<1> QED BY <1>1, Invariance, PTL

\* Until the first node is unlinked, the list is doubly linked and has no freed node.
THEOREM StaysLinked == Spec => []WellLinked
<1>1. IInv => WellLinked
  <2> SUFFICES ASSUME IInv, ~damaged
               PROVE  /\ ~Cyclic
                      /\ \A i \in DOMAIN Path :
                           /\ Path[i] \in allocated
                           /\ heap.prev[Path[i]] = IF i = 1 THEN NULL ELSE Path[i - 1]
    BY DEF WellLinked
  <2>1. TypeOK /\ LinkedBehindRoot
    BY DEF IInv, LeadsToItself
  <2>2. /\ Len(Path) \in Nat /\ DOMAIN Path = 1..Len(Path) /\ ~Cyclic
        /\ \A i \in 1..Len(Path) : Path[i] # NULL
        /\ root = IF Len(Path) = 0 THEN NULL ELSE Path[1]
        /\ \A i \in 2..Len(Path) : heap.prev[Path[i]] = Path[i - 1] /\ Path[i] \in allocated
    BY <2>1, ListNodes
  <2>3. ASSUME NEW i \in 1..Len(Path)
        PROVE  /\ Path[i] \in allocated
               /\ heap.prev[Path[i]] = IF i = 1 THEN NULL ELSE Path[i - 1]
    <3>1. CASE i = 1
      <4>1. Path[1] # NULL /\ root = Path[1]
        BY <2>2, <3>1
      <4> QED BY <4>1, <3>1, <2>1 DEF LinkedBehindRoot
    <3>2. CASE i # 1
      <4>1. i \in 2..Len(Path)
        BY <3>2, <2>2
      <4> QED BY <4>1, <3>2, <2>2
    <3> QED BY <3>1, <3>2
  <2> QED BY <2>2, <2>3
<1> QED BY <1>1, Invariance, PTL

-----------------------------------------------------------------------------
(* The refinement.                                                         *)

\* What users see of a list that a traversal can read.
LEMMA ListIsSeen ==
  ASSUME TypeOK, LinkedBehindRoot
  PROVE  /\ ListSeen = [items |-> ListSeen.items, freed |-> Freed, damaged |-> damaged]
         /\ ListSeen.items \in Seq(Data \union {NULL}) /\ Len(ListSeen.items) = Len(Path)
         /\ DOMAIN ListSeen.items = DOMAIN Path
         /\ \A i \in DOMAIN Path : ListSeen.items[i] = heap.data[Path[i]]
         /\ FateSeen = fate
<1>1. /\ Path \in Seq(Node) /\ Len(Path) \in Nat /\ DOMAIN Path = 1..Len(Path) /\ ~Cyclic
      /\ \A i \in 1..Len(Path) : Path[i] \in Node
  BY ListNodes
<1>2. heap.data \in [Node -> Data \union {NULL}]
  BY DEF TypeOK, Heap
<1> DEFINE items == [i \in DOMAIN Path |-> heap.data[Path[i]]]
<1>3. ListSeen = [items |-> items, freed |-> Freed, damaged |-> damaged]
  BY DEF ListSeen, Freed
<1>4. items \in Seq(Data \union {NULL}) /\ DOMAIN items = DOMAIN Path /\ Len(items) = Len(Path)
  <2>1. items \in [1..Len(Path) -> Data \union {NULL}]
    BY <1>1, <1>2
  <2> HIDE DEF items
  <2> QED BY <2>1, <1>1
<1>5. \A i \in DOMAIN Path : items[i] = heap.data[Path[i]]
  OBVIOUS
<1>6. ListSeen.items = items
  BY <1>3
<1>7. FateSeen = fate
  BY <1>1 DEF FateSeen
<1> HIDE DEF items
<1> QED BY <1>3, <1>4, <1>5, <1>6, <1>7

\* Users see the removal they see in ListSpec.
LEMMA UnlinkSeen ==
  ASSUME TypeOK, LinkedBehindRoot, NEW i \in DOMAIN Path,
         heap' = Unlinked(heap, Path[i]), root' = root,
         allocated' \in {allocated, allocated \ {Path[i]}},
         damaged' = (damaged \/ Path[i] = root)
  PROVE  /\ ListSeen' = [items |-> IF i = 1 THEN <<ListSeen.items[1]>> ELSE RemoveAt(ListSeen.items, i),
                         freed |-> Freed', damaged |-> (damaged \/ i = 1)]
         /\ FateSeen' = fate'
         /\ root = Path[1] /\ (Path[i] = root <=> i = 1)
<1> DEFINE items == ListSeen.items
           q == IF i = 1 THEN <<Path[1]>> ELSE RemoveAt(Path, i)
           seen == [j \in DOMAIN q |-> heap.data[q[j]]]
<1>1. /\ Path \in Seq(Node) /\ Len(Path) \in Nat /\ DOMAIN Path = 1..Len(Path)
      /\ \A j \in 1..Len(Path) : Path[j] \in Node
      /\ \A j, l \in 1..Len(Path) : Path[j] = Path[l] => j = l
      /\ root = IF Len(Path) = 0 THEN NULL ELSE Path[1]
  BY ListNodes
<1>2. /\ items \in Seq(Data \union {NULL}) /\ Len(items) = Len(Path) /\ DOMAIN items = DOMAIN Path
      /\ \A j \in DOMAIN Path : items[j] = heap.data[Path[j]]
  BY ListIsSeen
<1>3. heap'.data = heap.data /\ ~Cyclic' /\ Path' = q
  BY UnlinkStep
<1>4. i \in 1..Len(Path) /\ 1 \in 1..Len(Path) /\ Len(Path) # 0
  BY <1>1
<1>5. root = Path[1] /\ (Path[i] = root <=> i = 1)
  BY <1>1, <1>4
<1>6. ListSeen' = [items |-> [j \in DOMAIN Path' |-> heap'.data[Path'[j]]], freed |-> Freed', damaged |-> damaged']
  BY DEF ListSeen, Freed
<1>7. ListSeen' = [items |-> seen, freed |-> Freed', damaged |-> (damaged \/ i = 1)]
  <2> HIDE DEF q
  <2> QED BY <1>3, <1>5, <1>6
<1>8. seen = IF i = 1 THEN <<items[1]>> ELSE RemoveAt(items, i)
  <2>1. CASE i = 1
    <3>1. q = <<Path[1]>>
      BY <2>1
    <3>2. seen = <<heap.data[Path[1]]>>
      BY <3>1
    <3>3. items[1] = heap.data[Path[1]]
      BY <1>1, <1>2, <1>4
    <3> HIDE DEF seen, q, items
    <3> QED BY <2>1, <3>2, <3>3
  <2>2. CASE i # 1
    <3> DEFINE last == Len(Path)
               r == RemoveAt(items, i)
    <3>1. q = RemoveAt(Path, i)
      BY <2>2
    <3>2. /\ q \in Seq(Node) /\ Len(q) = last - 1
          /\ \A j \in 1..(last - 1) : q[j] = IF j < i THEN Path[j] ELSE Path[j + 1]
      <4>1. Path \in Seq(Node) /\ i \in DOMAIN Path
        BY <1>1
      <4>2. /\ RemoveAt(Path, i) \in Seq(Node) /\ Len(RemoveAt(Path, i)) = last - 1
            /\ \A j \in 1..(last - 1) : RemoveAt(Path, i)[j] = IF j < i THEN Path[j] ELSE Path[j + 1]
        BY <4>1, RemoveAtItems
      <4> HIDE DEF q, last
      <4> QED BY <3>1, <4>2
    <3>3. /\ r \in Seq(Data \union {NULL}) /\ Len(r) = last - 1
          /\ \A j \in 1..(last - 1) : r[j] = IF j < i THEN items[j] ELSE items[j + 1]
      <4>1. items \in Seq(Data \union {NULL}) /\ i \in DOMAIN items /\ Len(items) = last
        BY <1>2
      <4> HIDE DEF items, last
      <4>2. /\ r \in Seq(Data \union {NULL}) /\ Len(r) = Len(items) - 1
            /\ \A j \in 1..(Len(items) - 1) : r[j] = IF j < i THEN items[j] ELSE items[j + 1]
        BY <4>1, RemoveAtItems
      <4> HIDE DEF r
      <4> QED BY <4>1, <4>2
    <3>4. DOMAIN q = 1..(last - 1) /\ r = [j \in 1..(last - 1) |-> r[j]]
      <4> HIDE DEF q, r, last
      <4> QED BY <3>2, <3>3
    <3>5. ASSUME NEW j \in 1..(last - 1) PROVE r[j] = heap.data[q[j]]
      <4> HIDE DEF q, r, items
      <4>1. j \in 1..last /\ j + 1 \in 1..last
        <5>1. last \in Nat
          BY <1>1
        <5> HIDE DEF last
        <5> QED BY <5>1
      <4>2. items[j] = heap.data[Path[j]] /\ items[j + 1] = heap.data[Path[j + 1]]
        BY <4>1, <1>1, <1>2
      <4> QED BY <4>2, <3>2, <3>3
    <3> HIDE DEF q, r, last
    <3>6. seen = [j \in 1..(last - 1) |-> r[j]]
      BY <3>4, <3>5
    <3> HIDE DEF seen
    <3>7. seen = r
      BY <3>4, <3>6
    <3> QED BY <2>2, <3>7 DEF r
  <2> QED BY <2>1, <2>2
<1>9. FateSeen' = fate'
  BY <1>3 DEF FateSeen
<1> HIDE DEF seen
<1> QED BY <1>5, <1>7, <1>8, <1>9

\* The changes of a list, written as ListSpec writes them, and what they make of the
\* one that is seen.
WithItems(l, seen) == [l EXCEPT !.items = seen]
WithRoot(l, seen) == [l EXCEPT !.items = seen, !.damaged = TRUE]
WithReusedRoot(l, seen) == [l EXCEPT !.items = seen, !.freed = FALSE]

LEMMA ListChanged ==
  ASSUME TypeOK, LinkedBehindRoot
  PROVE  \A seen :
           /\ WithItems(ListSeen, seen) = [items |-> seen, freed |-> Freed, damaged |-> damaged]
           /\ WithRoot(ListSeen, seen) = [items |-> seen, freed |-> Freed, damaged |-> TRUE]
           /\ WithReusedRoot(ListSeen, seen) = [items |-> seen, freed |-> FALSE, damaged |-> damaged]
<1> SUFFICES ASSUME NEW seen
             PROVE  /\ WithItems(ListSeen, seen) = [items |-> seen, freed |-> Freed, damaged |-> damaged]
                    /\ WithRoot(ListSeen, seen) = [items |-> seen, freed |-> Freed, damaged |-> TRUE]
                    /\ WithReusedRoot(ListSeen, seen) = [items |-> seen, freed |-> FALSE, damaged |-> damaged]
  OBVIOUS
<1>1. ListSeen = [items |-> ListSeen.items, freed |-> Freed, damaged |-> damaged]
  BY ListIsSeen
<1>2. PICK items : ListSeen = [items |-> items, freed |-> Freed, damaged |-> damaged]
  BY <1>1
<1>3. WithItems(ListSeen, seen) = [items |-> seen, freed |-> Freed, damaged |-> damaged]
  BY <1>2 DEF WithItems
<1>4. WithRoot(ListSeen, seen) = [items |-> seen, freed |-> Freed, damaged |-> TRUE]
  <2>1. ASSUME NEW l, l = [ListSeen EXCEPT !.items = seen, !.damaged = TRUE]
        PROVE  l = [items |-> seen, freed |-> Freed, damaged |-> TRUE]
    BY <1>2, <2>1
  <2> QED BY <2>1 DEF WithRoot
<1>5. WithReusedRoot(ListSeen, seen) = [items |-> seen, freed |-> FALSE, damaged |-> damaged]
  <2>1. ASSUME NEW l, l = [ListSeen EXCEPT !.items = seen, !.freed = FALSE]
        PROVE  l = [items |-> seen, freed |-> FALSE, damaged |-> damaged]
    BY <1>2, <2>1
  <2> QED BY <2>1 DEF WithReusedRoot
<1> QED BY <1>3, <1>4, <1>5

\* list_remove does what ListSpec says of it,
LEMMA PositionRefines ==
  ASSUME TypeOK, LinkedBehindRoot, fate = "sound",
         NEW position \in 0..Cardinality(Node), list_remove(position)
  PROVE  ListView!Next
<1>1. PICK i \in DOMAIN Path :
        /\ heap' = Unlinked(heap, Path[i]) /\ allocated' = allocated
        /\ damaged' = (damaged \/ Path[i] = root) /\ root' = root /\ fate' = fate
  BY PositionRemoved
<1>2. /\ ListSeen' = [items |-> IF i = 1 THEN <<ListSeen.items[1]>> ELSE RemoveAt(ListSeen.items, i),
                      freed |-> Freed', damaged |-> (damaged \/ i = 1)]
      /\ FateSeen' = fate'
  BY <1>1, UnlinkSeen
<1>3. /\ ListSeen = [items |-> ListSeen.items, freed |-> Freed, damaged |-> damaged]
      /\ DOMAIN ListSeen.items = DOMAIN Path /\ FateSeen = fate
  BY ListIsSeen
<1>4. Freed' = Freed /\ damaged \in BOOLEAN
  BY <1>1 DEF Freed, TypeOK
<1>5. \A seen :
        /\ WithItems(ListSeen, seen) = [items |-> seen, freed |-> Freed, damaged |-> damaged]
        /\ WithRoot(ListSeen, seen) = [items |-> seen, freed |-> Freed, damaged |-> TRUE]
  BY ListChanged
<1>6. ListSeen' = IF i = 1 THEN [ListSeen EXCEPT !.items = <<ListSeen.items[1]>>, !.damaged = TRUE]
                  ELSE [ListSeen EXCEPT !.items = RemoveAt(ListSeen.items, i)]
  <2>1. CASE i = 1
    <3>1. ListSeen' = [items |-> <<ListSeen.items[1]>>, freed |-> Freed, damaged |-> TRUE]
      BY <1>2, <1>4, <2>1
    <3>2. ListSeen' = WithRoot(ListSeen, <<ListSeen.items[1]>>)
      BY <3>1, <1>5
    <3> QED BY <3>2, <2>1 DEF WithRoot
  <2>2. CASE i # 1
    <3>1. (damaged \/ i = 1) = damaged
      BY <1>4, <2>2
    <3>2. ListSeen' = [items |-> RemoveAt(ListSeen.items, i), freed |-> Freed, damaged |-> damaged]
      BY <1>2, <1>4, <2>2, <3>1
    <3>3. ListSeen' = WithItems(ListSeen, RemoveAt(ListSeen.items, i))
      BY <3>2, <1>5
    <3> QED BY <3>3, <2>2 DEF WithItems
  <2> QED BY <2>1, <2>2
<1>7. ListView!RemovePosition(i)
  <2>1. ListView!RemoveAnywhere(ListSeen, i) = [ListSeen EXCEPT !.items = RemoveAt(ListSeen.items, i)]
    BY DEF ListView!RemoveAnywhere, ListView!RemoveAt, RemoveAt
  <2> QED BY <2>1, <1>1, <1>2, <1>3, <1>6 DEF ListView!RemovePosition
<1> QED BY <1>3, <1>7 DEF ListView!Next

\* list_remove_item too,
LEMMA RemovalRefines ==
  ASSUME TypeOK, LinkedBehindRoot, fate = "sound", NEW x \in Data, list_remove_item(x)
  PROVE  ListView!Next
<1>1. PICK i \in DOMAIN Path :
        /\ heap.data[Path[i]] = x
        /\ \A j \in 1..(i - 1) : heap.data[Path[j]] # x
        /\ heap' = Unlinked(heap, Path[i]) /\ allocated' = allocated \ {Path[i]}
        /\ damaged' = (damaged \/ Path[i] = root) /\ root' = root /\ fate' = fate
  BY DEF list_remove_item
<1>2. /\ ListSeen' = [items |-> IF i = 1 THEN <<ListSeen.items[1]>> ELSE RemoveAt(ListSeen.items, i),
                      freed |-> Freed', damaged |-> (damaged \/ i = 1)]
      /\ FateSeen' = fate' /\ root = Path[1] /\ (Path[i] = root <=> i = 1)
  BY <1>1, UnlinkSeen
<1>3. /\ ListSeen = [items |-> ListSeen.items, freed |-> Freed, damaged |-> damaged]
      /\ DOMAIN ListSeen.items = DOMAIN Path /\ FateSeen = fate
      /\ \A j \in DOMAIN Path : ListSeen.items[j] = heap.data[Path[j]]
  BY ListIsSeen
<1>4. i = 1 => Freed'
  <2>1. DOMAIN Path = 1..Len(Path) /\ \A j \in 1..Len(Path) : Path[j] # NULL
    BY ListNodes
  <2> QED BY <1>1, <1>2, <2>1 DEF Freed
<1>5. (i # 1 => Freed' = Freed) /\ damaged \in BOOLEAN
  BY <1>1, <1>2 DEF Freed, TypeOK
<1>6. ListSeen' = IF i = 1 THEN [items |-> <<ListSeen.items[1]>>, freed |-> TRUE, damaged |-> TRUE]
                  ELSE [ListSeen EXCEPT !.items = RemoveAt(ListSeen.items, i)]
  <2>1. CASE i = 1
    <3>1. Freed' = TRUE
      BY <1>4, <2>1 DEF Freed
    <3> QED BY <1>2, <2>1, <3>1
  <2>2. CASE i # 1
    <3>1. (damaged \/ i = 1) = damaged
      BY <1>5, <2>2
    <3>2. ListSeen' = [items |-> RemoveAt(ListSeen.items, i), freed |-> Freed, damaged |-> damaged]
      BY <1>2, <1>5, <2>2, <3>1
    <3>3. \A seen : WithItems(ListSeen, seen) = [items |-> seen, freed |-> Freed, damaged |-> damaged]
      BY ListChanged
    <3>4. ListSeen' = WithItems(ListSeen, RemoveAt(ListSeen.items, i))
      BY <3>2, <3>3
    <3> QED BY <3>4, <2>2 DEF WithItems
  <2> QED BY <2>1, <2>2
<1>7. ListSeen' = ListView!ListRemove(ListSeen, i)
  BY <1>6 DEF ListView!ListRemove, ListView!RemoveAnywhere, ListView!RemoveAt, RemoveAt
<1>8. \A j \in 1..(i - 1) : j \in DOMAIN Path
  <2>1. DOMAIN Path = 1..Len(Path) /\ Len(Path) \in Nat
    BY ListNodes
  <2> QED BY <2>1
<1>9. ListView!RemoveItem(x)
  <2>1. ListSeen.items[i] = x /\ \A j \in 1..(i - 1) : ListSeen.items[j] # x
    BY <1>1, <1>3, <1>8
  <2> QED BY <2>1, <1>1, <1>2, <1>3, <1>7 DEF ListView!RemoveItem
<1> QED BY <1>9 DEF ListView!Next

\* and an append, whichever node malloc returns.
LEMMA AppendRefines ==
  ASSUME TypeOK, LinkedBehindRoot, fate = "sound", NEW x \in Data, NEW n \in Node, list_append(x, n)
  PROVE  ListView!Next
<1> DEFINE items == ListSeen.items
<1>1. /\ Path \in Seq(Node) /\ Len(Path) \in Nat /\ DOMAIN Path = 1..Len(Path)
      /\ \A j \in 1..Len(Path) : Path[j] \in Node
  BY ListNodes
<1>2. /\ ListSeen = [items |-> items, freed |-> Freed, damaged |-> damaged]
      /\ items \in Seq(Data \union {NULL}) /\ Len(items) = Len(Path) /\ DOMAIN items = DOMAIN Path
      /\ \A j \in DOMAIN Path : items[j] = heap.data[Path[j]]
      /\ FateSeen = "sound"
  BY ListIsSeen
<1>3. \A m \in Node : heap'.data[m] = IF m = n THEN x ELSE heap.data[m]
  BY AppendStep
<1>4. damaged' = damaged /\ fate' = "sound"
  BY DEF list_append
<1>5. ListSeen' = [items |-> [j \in DOMAIN Path' |-> heap'.data[Path'[j]]], freed |-> Freed', damaged |-> damaged]
  BY <1>4 DEF ListSeen, Freed
<1>6. \A seen :
         /\ WithItems(ListSeen, seen) = [items |-> seen, freed |-> Freed, damaged |-> damaged]
         /\ WithReusedRoot(ListSeen, seen) = [items |-> seen, freed |-> FALSE, damaged |-> damaged]
  BY ListChanged
<1> HIDE DEF items
<1>7. CASE /\ ~Cyclic' /\ Path' = Append(Path, n)
           /\ Freed' <=> Freed
           /\ \A i \in 1..Len(Path) : Path[i] # n
  <2> DEFINE q == Append(Path, n)
             r == Append(items, x)
             last == Len(Path)
  <2>1. /\ DOMAIN q = 1..(last + 1) /\ q[last + 1] = n /\ \A j \in 1..last : q[j] = Path[j]
    BY <1>1
  <2>2. r = [j \in 1..(last + 1) |-> r[j]] /\ r[last + 1] = x /\ \A j \in 1..last : r[j] = items[j]
    <3>1. Len(items) = last /\ items \in Seq(Data \union {NULL}) /\ last \in Nat
      BY <1>1, <1>2
    <3> HIDE DEF last
    <3>2. items \in Seq(Data \union {NULL} \union {x}) /\ x \in Data \union {NULL} \union {x}
      BY <3>1
    <3>3. r \in Seq(Data \union {NULL} \union {x}) /\ Len(r) = last + 1
      BY <3>1, <3>2
    <3>4. DOMAIN r = 1..(last + 1) /\ r[last + 1] = x /\ \A j \in 1..last : r[j] = items[j]
      BY <3>1, <3>2
    <3> HIDE DEF r
    <3>5. r = [j \in 1..Len(r) |-> r[j]]
      BY <3>3
    <3> QED BY <3>3, <3>4, <3>5
  <2>3. \A j \in 1..(last + 1) : j = last + 1 \/ j \in 1..last
    BY <1>1
  <2> HIDE DEF q, r, last
  <2>4. ASSUME NEW j \in 1..(last + 1) PROVE heap'.data[q[j]] = r[j]
    <3>1. CASE j = last + 1
      BY <3>1, <2>1, <2>2, <1>3
    <3>2. CASE j \in 1..last
      <4>1. j \in DOMAIN Path /\ Path[j] \in Node /\ Path[j] # n
        BY <3>2, <1>1, <1>7 DEF last
      <4> QED BY <4>1, <3>2, <2>1, <2>2, <1>2, <1>3
    <3> QED BY <3>1, <3>2, <2>3
  <2>5. [j \in DOMAIN q |-> heap'.data[q[j]]] = r
    BY <2>1, <2>2, <2>4
  <2>6. Freed' = Freed
    BY <1>7 DEF Freed
  <2>7. ListSeen' = [items |-> r, freed |-> Freed, damaged |-> damaged]
    BY <1>5, <1>7, <2>5, <2>6 DEF q
  <2>8. ListSeen' = [ListSeen EXCEPT !.items = r]
    <3>1. ListSeen' = WithItems(ListSeen, r)
      BY <2>7, <1>6
    <3> QED BY <3>1 DEF WithItems
  <2>9. ListSeen' \in ListView!ListAppends(ListSeen, x)
    BY <2>8 DEF ListView!ListAppends, ListView!ListAppend, r, items
  <2>10. FateSeen' = "sound"
    BY <1>4, <1>7 DEF FateSeen
  <2> QED BY <2>9, <2>10, <1>2 DEF ListView!Next, ListView!AppendItem
<1>8. ASSUME Path' = <<n>> PROVE [j \in DOMAIN Path' |-> heap'.data[Path'[j]]] = <<x>>
  <2> DEFINE q == <<n>>
             d == heap'.data
  <2>1. d[n] = x
    BY <1>3
  <2> HIDE DEF d
  <2>2. [j \in DOMAIN q |-> d[q[j]]] = <<x>>
    BY <2>1
  <2> QED BY <2>2, <1>8 DEF d
<1>9. CASE /\ ~Cyclic' /\ Path' = <<n>>
           /\ Freed /\ ~Freed' /\ Len(Path) > 1
  <2>1. Freed' = FALSE /\ Freed = TRUE
    BY <1>9 DEF Freed
  <2>2. ListSeen' = [items |-> <<x>>, freed |-> FALSE, damaged |-> damaged]
    BY <1>5, <1>8, <1>9, <2>1
  <2>3. ListSeen' = [ListSeen EXCEPT !.items = <<x>>, !.freed = FALSE]
    <3>1. ListSeen' = WithReusedRoot(ListSeen, <<x>>)
      BY <2>2, <1>6
    <3> QED BY <3>1 DEF WithReusedRoot
  <2>4. ListSeen.freed /\ Len(ListSeen.items) > 1
    <3>1. ListSeen.freed = Freed
      BY <1>2
    <3>2. Len(ListSeen.items) = Len(Path)
      BY <1>2 DEF items
    <3> QED BY <3>1, <3>2, <1>9
  <2>5. ListSeen' \in ListView!ListAppends(ListSeen, x)
    BY <2>3, <2>4 DEF ListView!ListAppends
  <2>6. FateSeen' = "sound"
    BY <1>4, <1>9 DEF FateSeen
  <2> QED BY <2>5, <2>6, <1>2 DEF ListView!Next, ListView!AppendItem
<1>10. CASE LeadsToItself' /\ Freed /\ ~Freed' /\ Len(Path) = 1 /\ root' = n
  <2>1. n # NULL /\ heap'.next[n] = n
    BY <1>10, NodeAssumption DEF LeadsToItself
  <2>2. PathOf(n, heap'.next) = <<n>> /\ Hops(n, heap'.next)[Cardinality(Node)] = n
    BY <2>1, PathOfLoop
  <2>3. Path' = <<n>> /\ Cyclic'
    BY <2>1, <2>2, <1>10 DEF Path, Cyclic
  <2>4. Freed' = FALSE /\ Freed = TRUE
    BY <1>10 DEF Freed
  <2>5. ListSeen' = [items |-> <<x>>, freed |-> FALSE, damaged |-> damaged]
    BY <1>5, <1>8, <2>3, <2>4
  <2>6. ListSeen' = [ListSeen EXCEPT !.items = <<x>>, !.freed = FALSE]
    <3>1. ListSeen' = WithReusedRoot(ListSeen, <<x>>)
      BY <2>5, <1>6
    <3> QED BY <3>1 DEF WithReusedRoot
  <2>7. ListSeen.freed /\ Len(ListSeen.items) = 1
    <3>1. ListSeen.freed = Freed
      BY <1>2
    <3>2. Len(ListSeen.items) = Len(Path)
      BY <1>2 DEF items
    <3> QED BY <3>1, <3>2, <1>10
  <2>8. FateSeen' = "hung"
    BY <2>3 DEF FateSeen
  <2>9. ListView!AppendLoops(x)
    BY <2>6, <2>7, <2>8 DEF ListView!AppendLoops
  <2> QED BY <2>9, <1>2 DEF ListView!Next, ListView!AppendItem
<1>11. Appended(n)
  BY AppendStep
<1> QED BY <1>7, <1>9, <1>10, <1>11 DEF Appended

\* list.c implements ListSpec: whatever malloc and free do with addresses, users see a
\* sequence, the freed root, and the three ways it may end.
THEOREM Refinement == Spec => ImplementsListSpec
<1>1. Init => ListView!Init
  <2> SUFFICES ASSUME Init PROVE ListView!Init
    OBVIOUS
  <2>1. <<>> \in Seq(Node) /\ Len(<<>>) = 0
    OBVIOUS
  <2>2. IsInjective(<<>>) /\ Leads(root, heap.next, <<>>)
    BY <2>1 DEF IsInjective, Leads, Init
  <2>3. PathOf(root, heap.next) = <<>> /\ Hops(root, heap.next)[Cardinality(Node)] = NULL
    BY <2>1, <2>2, PathOfList
  <2>4. Path = <<>> /\ ~Cyclic
    BY <2>3 DEF Path, Cyclic
  <2>5. ListSeen = [items |-> <<>>, freed |-> FALSE, damaged |-> FALSE]
    <3>1. (root # NULL /\ root \notin allocated) = FALSE /\ damaged = FALSE
      BY DEF Init
    <3>2. [i \in DOMAIN Path |-> heap.data[Path[i]]] = <<>>
      BY <2>4
    <3> QED BY <3>1, <3>2 DEF ListSeen
  <2>6. FateSeen = "sound"
    BY <2>4 DEF FateSeen, Init
  <2> QED BY <2>5, <2>6 DEF ListView!Init, ListView!EmptyList
<1>2. IInv /\ [Next]_vars => [ListView!Next]_<<ListSeen, FateSeen>>
  <2> SUFFICES ASSUME IInv, [Next]_vars PROVE [ListView!Next]_<<ListSeen, FateSeen>>
    OBVIOUS
  <2>1. CASE UNCHANGED vars
    <3>1. Path' = Path /\ Cyclic' = Cyclic
      BY <2>1 DEF vars, Path, Cyclic
    <3>2. ListSeen' = ListSeen /\ FateSeen' = FateSeen
      BY <2>1, <3>1 DEF vars, ListSeen, FateSeen
    <3> QED BY <3>2
  <2>2. CASE Next
    <3>0. TypeOK /\ LinkedBehindRoot /\ fate = "sound"
      BY <2>2, ListSteps DEF IInv
    <3>1. CASE \E x \in Data, n \in Node : list_append(x, n)
      BY <3>0, <3>1, AppendRefines
    <3>2. CASE \E x \in Data : list_remove_item(x)
      BY <3>0, <3>2, RemovalRefines
    <3>3. CASE \E position \in 0..Cardinality(Node) : list_remove(position)
      BY <3>0, <3>3, PositionRefines
    <3>4. CASE fate' = "crashed" /\ UNCHANGED <<heap, allocated, root, damaged>>
      <4>1. ~Cyclic /\ FateSeen = "sound"
        BY <3>0, ListNodes DEF FateSeen
      <4>2. Path' = Path /\ Cyclic' = Cyclic
        BY <3>4 DEF Path, Cyclic
      <4>3. ListSeen' = ListSeen /\ FateSeen' = "crashed"
        BY <3>4, <4>1, <4>2 DEF ListSeen, FateSeen
      <4> QED BY <4>1, <4>3 DEF ListView!Next, ListView!Crash
    <3> QED BY <2>2, <3>1, <3>2, <3>3, <3>4, ListSteps
  <2> QED BY <2>1, <2>2
<1> QED BY <1>1, <1>2, Invariance, PTL DEF Spec, ImplementsListSpec, ListView!Spec

=============================================================================
