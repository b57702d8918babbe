----------------------------- MODULE MCSyncShell -----------------------------
(* Instances of SyncShell for TLC. *)
EXTENDS SyncShell, TLC

\* Threads, tokens and profiles are interchangeable.
Interchangeable == Permutations(Threads) \cup Permutations(Tokens) \cup Permutations(Profiles)

\* A quiet change is made when there is another one already, uploaded or not.
QuietComesLater == records \cap Silent # {} => Noted(records) # {}
=============================================================================
