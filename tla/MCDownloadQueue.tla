--------------------------- MODULE MCDownloadQueue ---------------------------
(***************************************************************************)
(* DownloadQueue for TLC: sets of interchangeable addresses and names.     *)
(***************************************************************************)
EXTENDS DownloadQueue

\* Names stay distinct: one of them may be the empty one.
Addresses == Permutations(Entry) \union Permutations(Thread)

=============================================================================
