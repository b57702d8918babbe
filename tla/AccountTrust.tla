----------------------------- MODULE AccountTrust -----------------------------
(***************************************************************************)
(* What the snapshots of an account see of its devices and its vault: who  *)
(* is approved, and under which generation of the key.  SnapshotStore takes *)
(* these steps beside its own; that DeviceTrust takes no others, once the  *)
(* vault is made, is proved in DeviceTrustProofs.                          *)
(***************************************************************************)
EXTENDS Naturals

CONSTANTS Devices, MaxGeneration

VARIABLES
  status,      \* user_devices.approval_status
  generation   \* sync_vault_accounts: the current key and its generation

vars == <<status, generation>>

Approver(d) == status[d] = "approved"

\* The vault is made by a device that is approved; a pending one may have been
\* revoked before.
Init ==
  /\ status \in [Devices -> {"pending", "approved", "revoked"}]
  /\ \E d \in Devices : Approver(d)
  /\ generation = 1

\* Another device of the account approves a pending one.
Approve(d) ==
  /\ status[d] = "pending"
  /\ \E approver \in Devices \ {d} : Approver(approver)
  /\ status' = [status EXCEPT ![d] = "approved"]
  /\ UNCHANGED generation

\* An approved device is revoked by another one, and only together with its key.
Rotate(target) ==
  /\ Approver(target)
  /\ \E approver \in Devices \ {target} : Approver(approver)
  /\ generation < MaxGeneration
  /\ generation' = generation + 1
  /\ status' = [status EXCEPT ![target] = "revoked"]

\* A pending device is revoked: it has no key that would have to change.
Dismiss(d) ==
  /\ status[d] = "pending"
  /\ \E approver \in Devices \ {d} : Approver(approver)
  /\ status' = [status EXCEPT ![d] = "revoked"]
  /\ UNCHANGED generation

Next == \E d \in Devices : Approve(d) \/ Rotate(d) \/ Dismiss(d)
=============================================================================
