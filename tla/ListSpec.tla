------------------------------ MODULE ListSpec ------------------------------
(***************************************************************************)
(* What the users of list_t can rely on: the operations of module Lists,   *)
(* one after the other.  DownloadQueue uses its two lists in this way.     *)
(***************************************************************************)
EXTENDS Lists

CONSTANT Data   \* what nodes point to

VARIABLES list, fate

Fate == {"sound", "hung", "crashed"}

Init == list = EmptyList /\ fate = "sound"

\* The new node closes a cycle on a freed root that has no successor.
AppendLoops(x) ==
  /\ list.freed /\ Len(list.items) = 1
  /\ fate' = "hung"
  /\ list' = [list EXCEPT !.items = <<x>>, !.freed = FALSE]

AppendItem(x) ==
  /\ fate = "sound"
  /\ \/ list' \in ListAppends(list, x) /\ UNCHANGED fate
     \/ AppendLoops(x)

\* The first item x goes; nothing happens if there is none.
RemoveItem(x) ==
  /\ fate = "sound"
  /\ \E i \in DOMAIN list.items :
       /\ list.items[i] = x
       /\ \A j \in 1..(i - 1) : list.items[j] # x
       /\ list' = ListRemove(list, i)
  /\ UNCHANGED fate

\* list_remove unlinks the node at a position without freeing it; the first one
\* stays the root, alone.
RemovePosition(i) ==
  /\ fate = "sound"
  /\ i \in DOMAIN list.items
  /\ list' = IF i = 1 THEN [list EXCEPT !.items = <<list.items[1]>>, !.damaged = TRUE]
                       ELSE RemoveAnywhere(list, i)
  /\ UNCHANGED fate

\* malloc fails, or list_insert is called with a position in the list.
Crash == fate = "sound" /\ fate' = "crashed" /\ UNCHANGED list

Next ==
  \/ \E x \in Data : AppendItem(x) \/ RemoveItem(x)
  \/ \E i \in DOMAIN list.items : RemovePosition(i)
  \/ Crash

Spec == Init /\ [][Next]_<<list, fate>>

=============================================================================
