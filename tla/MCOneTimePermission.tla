------------------------- MODULE MCOneTimePermission -------------------------
(* Instances of OneTimePermission for TLC. *)
EXTENDS OneTimePermission, TLC

\* The tabs are interchangeable (not in a run for liveness).
Interchangeable == Permutations(Tabs)
=============================================================================
