----------------------------- MODULE MCDownloads -----------------------------
(* Instances of Downloads for TLC. *)
EXTENDS Downloads, TLC

\* Nothing tells two downloads apart.
Interchangeable == Permutations(Ids)
=============================================================================
