---------------------------- MODULE MCDeviceTrust ----------------------------
(* Instances of DeviceTrust for TLC. *)
EXTENDS DeviceTrust, TLC

\* Nothing tells two devices, sessions or slots apart.
Interchangeable ==
  Permutations(Devices) \cup Permutations(Sessions) \cup Permutations(Slots)
=============================================================================
