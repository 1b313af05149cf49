---------------------------- MODULE MCLinkedList ----------------------------
(***************************************************************************)
(* LinkedList for TLC.                                                     *)
(***************************************************************************)
EXTENDS LinkedList, TLC

Addresses == Permutations(Node)

=============================================================================
