--------------------------- MODULE MCBrowserState ---------------------------
(* Instances of BrowserState for TLC. *)
EXTENDS BrowserState, TLC

\* Ids of one kind are interchangeable, and profiles of one kind.
Interchangeable ==
  Permutations(Tabs) \cup Permutations(Spaces) \cup Permutations(Splits)
    \cup Permutations(Groups) \cup Permutations(Profiles \ Private)
=============================================================================
