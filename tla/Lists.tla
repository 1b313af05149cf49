-------------------------------- MODULE Lists --------------------------------
(***************************************************************************)
(* list_t (src/src/common/list.c) as its users see it: the items that a    *)
(* traversal from list->root visits, and whether that root is freed        *)
(* memory.  list_remove_item never assigns list->root, so removing the     *)
(* first node leaves root on the freed node, whose next it has just        *)
(* cleared: from then on a traversal reads freed memory and, where that    *)
(* memory still holds its old words, sees the removed item first.          *)
(* LinkedList derives these outcomes from the node pointers.               *)
(***************************************************************************)
EXTENDS Naturals, SequencesExt

EmptyList == [items |-> <<>>, freed |-> FALSE, damaged |-> FALSE]

ListOf(S) ==
  {l \in [items   : Seq(S),
          freed   : BOOLEAN,    \* root is freed memory
          damaged : BOOLEAN] :  \* history: the first node was removed at some time
     l.freed => l.damaged}

Items(l) == {l.items[i] : i \in DOMAIN l.items}

ListAppend(l, x) == [l EXCEPT !.items = Append(@, x)]

\* malloc may give the new node the address of the freed root: it then is the
\* root, with nothing after it, and the nodes in between are lost.  (With no
\* node in between it becomes its own successor, and no traversal ends.)
ListAppends(l, x) ==
  {ListAppend(l, x)} \union
    IF l.freed /\ Len(l.items) > 1 THEN {[l EXCEPT !.items = <<x>>, !.freed = FALSE]} ELSE {}

\* What a removal ought to do whatever the position.
RemoveAnywhere(l, i) == [l EXCEPT !.items = RemoveAt(@, i)]

\* list_remove_item, when the first match is at position i.
ListRemove(l, i) ==
  IF i = 1 THEN [items |-> <<l.items[1]>>, freed |-> TRUE, damaged |-> TRUE]
           ELSE RemoveAnywhere(l, i)

=============================================================================
