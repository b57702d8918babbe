--------------------------- MODULE MCSnapshotStore ---------------------------
(* The instances of SnapshotStore that TLC checks. *)
EXTENDS SnapshotStore, TLC

\* No action tells two payloads, two devices or two upload slots apart.
Interchangeable ==
  Permutations(Keys \ LegacyKeys) \cup Permutations(Devices) \cup Permutations(Uploaders)
=============================================================================
