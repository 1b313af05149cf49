---------------------------- MODULE MCDownloadFile ----------------------------
(***************************************************************************)
(* DownloadFile for TLC.                                                   *)
(***************************************************************************)
EXTENDS DownloadFile, FiniteSets, TLC

\* Bound of the check: what the properties make an exception for does not happen to a
\* file in two ways.
OneException == Cardinality({i \in 1..3 : <<overlapped, spoiled, mixed>>[i]}) <= 1

Threads == Permutations(Thread)

=============================================================================
