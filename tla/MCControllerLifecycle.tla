------------------------- MODULE MCControllerLifecycle -------------------------
(***************************************************************************)
(* ControllerLifecycle for TLC: two URLs that end in the same name, which  *)
(* is another one without its digits.  That one is the empty name, too.    *)
(***************************************************************************)
EXTENDS ControllerLifecycle

CONSTANTS n1, n2

OneName == [u \in Urls |-> n1]

OtherName == [u \in Urls |-> n2]

Addresses == Permutations(Entry) \union Permutations(Thread)

=============================================================================
