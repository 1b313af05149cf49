----------------------------- MODULE LinkedList -----------------------------
(***************************************************************************)
(* The doubly linked list of src/src/common/list.c and node.c, pointer by  *)
(* pointer, used by one thread.  A freed node keeps its words until malloc *)
(* hands its address out again, to a new node of the same list.            *)
(***************************************************************************)
EXTENDS Naturals, Sequences, FiniteSets, Functions

CONSTANTS
  Node,   \* addresses malloc can return for a node_t
  Data,   \* what nodes point to
  NULL

ASSUME NodeAssumption == IsFiniteSet(Node) /\ NULL \notin Node /\ NULL \notin Data

VARIABLES
  heap,        \* the next, previous and data of every node
  allocated,   \* the nodes malloc returned and nobody freed
  root,        \* list->root
  damaged,     \* history: the node root points to was unlinked at some time
  fate         \* "crashed" once a NULL pointer was followed

vars == <<heap, allocated, root, damaged, fate>>

Pointer == Node \union {NULL}

Heap ==
  [next : [Node -> Pointer], prev : [Node -> Pointer], data : [Node -> Data \union {NULL}]]

TypeOK ==
  /\ heap \in Heap
  /\ allocated \subseteq Node
  /\ root \in Pointer
  /\ damaged \in BOOLEAN
  /\ fate \in {"sound", "crashed"}
  /\ \A n \in allocated : heap.data[n] \in Data

Init ==
  /\ heap = [next |-> [n \in Node |-> NULL], prev |-> [n \in Node |-> NULL],
             data |-> [n \in Node |-> NULL]]
  /\ allocated = {}
  /\ root = NULL
  /\ damaged = FALSE
  /\ fate = "sound"

-----------------------------------------------------------------------------
(* node.c.                                                                 *)

\* A constructor that forgets its argument.
NewNodeWithoutData(h, n, x) ==
  [next |-> [h.next EXCEPT ![n] = NULL], prev |-> [h.prev EXCEPT ![n] = NULL],
   data |-> [h.data EXCEPT ![n] = NULL]]

NewNode(h, n, x) ==
  [next |-> [h.next EXCEPT ![n] = NULL], prev |-> [h.prev EXCEPT ![n] = NULL],
   data |-> [h.data EXCEPT ![n] = x]]

SetNext(h, n, m) ==
  IF n = NULL THEN h
  ELSE [h EXCEPT !.next[n] = m, !.prev = IF m = NULL THEN @ ELSE [@ EXCEPT ![m] = n]]

SetPrevious(h, n, m) ==
  IF n = NULL THEN h
  ELSE [h EXCEPT !.prev[n] = m, !.next = IF m = NULL THEN @ ELSE [@ EXCEPT ![m] = n]]

-----------------------------------------------------------------------------
(* Traversals: node = list->root; while (node) node = node->next.          *)

\* The node after each number of hops from r.
Hops(r, next) ==
  LET hop[k \in Nat] ==
        IF k = 0 THEN r ELSE IF hop[k - 1] = NULL THEN NULL ELSE next[hop[k - 1]]
  IN  hop

\* More hops than nodes: the traversal never ends.
Cyclic == Hops(root, heap.next)[Cardinality(Node)] # NULL

\* The nodes a traversal from r visits, up to where a cycle begins.
PathOf(r, next) ==
  LET hop == Hops(r, next)
      length == CHOOSE k \in 0..Cardinality(Node) :
                  /\ k = 0 \/ hop[k - 1] # NULL
                  /\ hop[k] = NULL \/ \E j \in 0..(k - 1) : hop[j] = hop[k]
                  /\ \A j, l \in 0..(k - 1) : hop[j] = hop[l] => j = l
  IN  [k \in 1..length |-> hop[k - 1]]

Path == PathOf(root, heap.next)

LastNode == IF root = NULL THEN NULL ELSE Path[Len(Path)]

\* Every operation begins with a traversal; one over a cycle never returns.
Usable == fate = "sound" /\ ~Cyclic

-----------------------------------------------------------------------------
(* list.c.                                                                 *)

\* new_node follows the NULL that malloc returned.
OutOfMemory ==
  /\ Usable
  /\ allocated = Node
  /\ fate' = "crashed"
  /\ UNCHANGED <<heap, allocated, root, damaged>>

\* The end of the list is looked up before the new node is allocated, possibly
\* on the address of the freed root.
list_append(x, n) ==
  /\ Usable
  /\ n \notin allocated
  /\ allocated' = allocated \union {n}
  /\ IF LastNode = NULL
     THEN root' = n /\ heap' = NewNode(heap, n, x)
     ELSE /\ heap' = SetPrevious(SetNext(NewNode(heap, n, x), LastNode, n), n, LastNode)
          /\ UNCHANGED root
  /\ UNCHANGED <<damaged, fate>>

\* "if (current = NULL)" assigns: for a position in the list, or at its end, the
\* else branch follows the NULL it has just stored.
list_insert(position) ==
  /\ Usable
  /\ position <= Len(Path)
  /\ fate' = "crashed"
  /\ UNCHANGED <<heap, allocated, root, damaged>>

\* A removal that relinks the successor only, if there is one.
UnlinkedFromNext(h, n) ==
  LET linked == SetPrevious(h, h.next[n], h.prev[n])
  IN  [linked EXCEPT !.prev[n] = NULL, !.next[n] = NULL]

\* A removal that leaves the pointers of the node itself.
UnlinkedOneWay(h, n) ==
  SetPrevious(SetNext(h, h.prev[n], h.next[n]), h.next[n], h.prev[n])

\* Both removals take a node out by its own pointers, and leave root alone.
Unlinked(h, n) ==
  LET linked == SetPrevious(SetNext(h, h.prev[n], h.next[n]), h.next[n], h.prev[n])
  IN  [linked EXCEPT !.prev[n] = NULL, !.next[n] = NULL]

\* The node at the position, counting from 0, is the caller's from then on.
list_remove(position) ==
  /\ Usable
  /\ position < Len(Path)
  /\ LET n == Path[position + 1]
     IN  /\ heap' = Unlinked(heap, n)
         /\ damaged' = (damaged \/ n = root)
  /\ UNCHANGED <<allocated, root, fate>>

\* The first node whose data matches is freed.
list_remove_item(x) ==
  /\ Usable
  /\ \E i \in DOMAIN Path :
       /\ heap.data[Path[i]] = x
       /\ \A j \in 1..(i - 1) : heap.data[Path[j]] # x
       /\ heap' = Unlinked(heap, Path[i])
       /\ allocated' = allocated \ {Path[i]}
       /\ damaged' = (damaged \/ Path[i] = root)
  /\ UNCHANGED <<root, fate>>

Next ==
  \/ \E x \in Data : list_remove_item(x) \/ \E n \in Node : list_append(x, n)
  \/ \E position \in 0..Cardinality(Node) : list_insert(position) \/ list_remove(position)
  \/ OutOfMemory

Spec == Init /\ [][Next]_vars

-----------------------------------------------------------------------------
(* Properties.                                                             *)

\* Until the first node is unlinked, the list is doubly linked: from every node
\* the next one leads back, the root has no predecessor, and no visited node is
\* freed memory.
WellLinked ==
  ~damaged =>
    /\ ~Cyclic
    /\ \A i \in DOMAIN Path :
         /\ Path[i] \in allocated
         /\ heap.prev[Path[i]] = IF i = 1 THEN NULL ELSE Path[i - 1]

\* Users see the items and the outcomes of ListSpec, and no others.
ListSeen ==
  [items   |-> [i \in DOMAIN Path |-> heap.data[Path[i]]],
   freed   |-> root # NULL /\ root \notin allocated,
   damaged |-> damaged]

FateSeen == IF Cyclic THEN "hung" ELSE fate

ListView == INSTANCE ListSpec WITH list <- ListSeen, fate <- FateSeen

ImplementsListSpec == ListView!Spec

-----------------------------------------------------------------------------
(* The invariant behind the proofs.                                        *)

\* The next pointers lead from r through p, to its end.
Leads(r, next, p) ==
  /\ r = IF Len(p) = 0 THEN NULL ELSE p[1]
  /\ \A i \in 1..Len(p) : next[p[i]] = IF i = Len(p) THEN NULL ELSE p[i + 1]

\* What is left of WellLinked once root has been unlinked: behind the root, which may
\* be freed memory and may have any predecessor.
LinkedBehindRoot ==
  /\ Path \in Seq(Node) /\ IsInjective(Path)
  /\ Leads(root, heap.next, Path)
  /\ \A i \in 2..Len(Path) : heap.prev[Path[i]] = Path[i - 1] /\ Path[i] \in allocated
  /\ ~damaged /\ root # NULL => root \in allocated /\ heap.prev[root] = NULL

\* The new node took the address of a freed root that had no successor.
LeadsToItself ==
  damaged /\ root \in allocated /\ heap.next[root] = root

IInv == TypeOK /\ (LinkedBehindRoot \/ LeadsToItself)

=============================================================================
