---------------------------- MODULE SnapshotStore ----------------------------
(***************************************************************************)
(* The encrypted snapshot store of one account: the D1 tables that hold    *)
(* its snapshots, their head, the R2 write ledger and the vault rotations, *)
(* the R2 bucket that holds the payloads, and the Worker requests and cron *)
(* invocations that work on them.                                          *)
(*                                                                         *)
(* A D1 statement or batch is one atomic step, an R2 call is another; the  *)
(* Worker holds no lock between two of them, so the steps of different     *)
(* requests interleave freely.  An uploader, a downloader or a cron is a   *)
(* slot for Worker invocations: it runs one at a time, and the next when   *)
(* that one has answered or died.  No action is forced, so an invocation   *)
(* may also stall for as long as it likes.                                 *)
(*                                                                         *)
(* The bounds MaxGeneration, MaxRevision and MaxTime make the instance     *)
(* finite.  Requests arrive until LastRequest; R2, D1 and the invocations  *)
(* fail before FaultsEnd.                                                   *)
(***************************************************************************)
EXTENDS Integers, FiniteSets

CONSTANTS
  Devices,        \* rows of user_devices; a device names its snapshot row
  Keys,           \* R2 keys: one per encrypted payload a device ever builds
  LegacyKeys,     \* objects that were in R2 before the write ledger existed
  Uploaders,      \* invocations of PUT /api/sync/snapshot
  Downloaders,    \* invocations of GET /api/sync/snapshot
  Resetters,      \* deliveries of one POST /api/sync/reset
  Deleters,       \* deliveries of one POST /api/account/delete
  Crons,          \* scheduled invocations; they may overlap
  NoDevice, NoKey, NoToken,
  Lease,          \* WRITE_LEASE_SECONDS
  Retry,          \* DELETE_RETRY_SECONDS
  MaxGeneration, MaxRevision, MaxTime, LastRequest, FaultsEnd

Handlers == Uploaders \cup Downloaders \cup Resetters \cup Deleters
Actors == Handlers \cup Crons

ASSUME ConstantsAssumption ==
  /\ NoDevice \notin Devices
  /\ NoKey \notin Keys
  /\ NoToken \notin Actors
  /\ LegacyKeys \subseteq Keys
  /\ Lease \in Nat /\ Retry \in Nat
  /\ MaxGeneration \in Nat \ {0} /\ MaxRevision \in Nat /\ MaxTime \in Nat
  /\ LastRequest \in Nat /\ FaultsEnd \in Nat

ASSUME ActorsAssumption ==
  /\ Uploaders \cap (Downloaders \cup Resetters \cup Deleters \cup Crons) = {}
  /\ Downloaders \cap (Resetters \cup Deleters \cup Crons) = {}
  /\ Resetters \cap (Deleters \cup Crons) = {}
  /\ Deleters \cap Crons = {}

VARIABLES
  now,         \* the wall clock, in units of the leases
  status,      \* user_devices.approval_status
  generation,  \* sync_vault_accounts: the current key and its generation
  head,        \* sync_snapshot_heads
  snapshots,   \* sync_snapshots joined with sync_snapshot_encryption
  ledger,      \* sync_r2_gc_candidates
  rotations,   \* sync_vault_rotations with their staged R2 objects
  objects,     \* the keys present in the R2 bucket
  requests,    \* the uploads the devices have built, by key
  run,         \* the running invocations: where each is, and its locals
  installed,   \* history: every key that has been the head's
  acknowledged \* history: every key whose upload was answered with success

tables == <<status, generation, head, snapshots, rotations>>
history == <<installed, acknowledged>>
vars == <<now, tables, ledger, objects, requests, run, history>>

-----------------------------------------------------------------------------
(* Data *)

Generations == 1..MaxGeneration
RotationIds == 2..MaxGeneration      \* a rotation, named by its new generation

\* A head reference: (head_revision, snapshot_id, payload_hash).  A device
\* names its snapshot row after itself and a payload hash determines its key.
HeadRef == [rev : Nat, snap : Devices \cup {NoDevice}, key : Keys \cup {NoKey}]
NoHead == [rev |-> 0, snap |-> NoDevice, key |-> NoKey]

Request == [device : Devices, base : HeadRef, clock : Nat, gen : Generations]
NoRequest == [device |-> NoDevice, base |-> NoHead, clock |-> 0, gen |-> 0]

Row == [key : Keys, rev : Nat, clock : Nat, gen : Generations]
NoRow == [key |-> NoKey, rev |-> 0, clock |-> 0, gen |-> 0]

LedgerStates == {"absent", "pending", "referenced", "ready", "deleting", "deleted"}

\* due is the time from which garbage collection may claim the row:
\* lease_expires_at, or delete_started_at + DELETE_RETRY_SECONDS of a row that
\* is being deleted.  collector is gc_token while the row is being deleted.
LedgerRow == [state : LedgerStates, token : Actors \cup {NoToken},
              due : Nat, collector : Actors \cup {NoToken}]
NoLedgerRow == [state |-> "absent", token |-> NoToken, due |-> 0,
                collector |-> NoToken]

RotationPhases == {"none", "completed", "cleaning", "cleaned"}
Rotation == [phase : RotationPhases, staged : SUBSET Keys]

\* The locals of an invocation: nowSeconds (stamp), the R2 key of the request,
\* the rows its collection has claimed and the one it is at, where it goes when
\* the collection ends (resume), the rotations its cleanup has read (queue) and
\* the inventory listing.
Places == {"idle", "claim", "put", "commit", "release", "reread", "cleanup", "queue",
           "metadata", "collect", "delete", "mark", "clean", "reset", "get", "recheck",
           "inventory", "finalize", "ok", "error", "lost"}
Resumes == {"idle", "ok", "reread", "clean", "finalize"}
Invocation == [pc : Places, stamp : Nat, key : Keys \cup {NoKey}, todo : SUBSET Keys,
               at : Keys \cup {NoKey}, resume : Resumes, queue : SUBSET RotationIds,
               listed : SUBSET Keys]
Idle == [pc |-> "idle", stamp |-> 0, key |-> NoKey, todo |-> {}, at |-> NoKey,
         resume |-> "idle", queue |-> {}, listed |-> {}]

-----------------------------------------------------------------------------
\* The devices and the vault, as far as snapshots depend on them.
Trust == INSTANCE AccountTrust

(* Conditions that several statements share *)

\* "approved, not revoked, protocol 2 keys", joined into every guarded write.
Trusted(d) == status[d] = "approved"

\* The account has been deleted: no device, session, vault or user row is left.
AccountGone == \A d \in Devices : status[d] = "gone"

\* The gate of the destructive requests, checked by their batch: the device that asks is
\* approved, and its session lives.
GateOpen == \E d \in Devices : Trusted(d)

\* The upload's own head reference once it is committed.
RefOf(k) == [rev |-> requests[k].base.rev + 1, snap |-> requests[k].device,
             key |-> k]

\* snapshotMatchesUpload: the head is this very upload.
HeadIs(k) == head = RefOf(k)

\* The compare half of the compare-and-swap: the base is the current head.
BaseCurrent(k) == requests[k].base = head

HeadClock == IF head = NoHead THEN 0 ELSE snapshots[head.snap].clock
ClockLater(k) == head = NoHead \/ requests[k].clock > HeadClock

KeyCurrent(k) == requests[k].gen = generation

\* A snapshot row (the head's included) names the key.
Referenced(k) == \E d \in Devices : snapshots[d].key = k

\* The key is one of the objects that a finished rotation staged, and the
\* cleanup of that rotation has not been allowed to start.
Retained(k) ==
  \E g \in RotationIds : rotations[g].phase = "completed" /\ k \in rotations[g].staged

InCleaning(k) ==
  \E g \in RotationIds :
    rotations[g].phase \in {"cleaning", "cleaned"} /\ k \in rotations[g].staged

Init ==
  /\ now = 0
  /\ Trust!Init
  /\ head = NoHead
  /\ snapshots = [d \in Devices |-> NoRow]
  /\ ledger = [k \in Keys |-> NoLedgerRow]
  /\ rotations = [g \in RotationIds |-> [phase |-> "none", staged |-> {}]]
  /\ objects = LegacyKeys
  /\ requests = [k \in Keys |-> NoRequest]
  /\ run = [a \in Actors |-> Idle]
  /\ installed = {}
  /\ acknowledged = {}

Goto(a, l) == run' = [run EXCEPT ![a].pc = l]
Answer(a) == run' = [run EXCEPT ![a] = Idle]

\* gc_token is fresh for every pass.  A pass that ends early leaves behind a
\* token that nobody holds.
Forgotten(a) ==
  [k \in Keys |-> IF ledger[k].collector = a
                    THEN [ledger[k] EXCEPT !.collector = NoToken]
                    ELSE ledger[k]]

\* A collection ends and its invocation goes on at l; an upload whose write
\* failed goes on to nothing but its answer.
Return(a, l) ==
  run' = [run EXCEPT ![a] =
    IF l = "idle" THEN Idle ELSE [@ EXCEPT !.pc = l, !.todo = {}, !.at = NoKey]]

-----------------------------------------------------------------------------
(* The world around the store: devices, their trust, the clock *)

Tick ==
  /\ now < MaxTime
  /\ now' = now + 1
  /\ UNCHANGED <<tables, ledger, objects, requests, run, history>>

\* A device encrypts its state against the head it has read.  The nonce is
\* fresh, so the payload and its key are new.
Build(d, k) ==
  /\ k \notin LegacyKeys
  /\ requests[k] = NoRequest
  /\ Trusted(d)
  /\ head.rev < MaxRevision
  /\ \E c \in {HeadClock, HeadClock + 1} :
       requests' = [requests EXCEPT ![k] =
         [device |-> d, base |-> head, clock |-> c, gen |-> generation]]
  /\ UNCHANGED <<now, tables, ledger, objects, run, history>>

\* Another device of the account approves a pending one.
Approve(d) ==
  /\ Trust!Approve(d)
  /\ UNCHANGED <<now, head, snapshots, rotations, ledger, objects, requests, run, history>>

\* Revoking an approved device rotates the vault key in the same batch: the
\* generation advances and every object a snapshot row names is staged.
Rotate(target) ==
  /\ Trust!Rotate(target)
  /\ rotations' = [rotations EXCEPT ![generation + 1] =
       [phase |-> "completed", staged |-> {k \in Keys : Referenced(k)}]]
  /\ UNCHANGED <<now, head, snapshots, ledger, objects, requests, run, history>>

\* Revoking a pending one rotates nothing.
Dismiss(d) ==
  /\ Trust!Dismiss(d)
  /\ UNCHANGED <<now, head, snapshots, rotations, ledger, objects, requests, run, history>>

\* The Worker is evicted, or a call fails and the handler throws.  (A reset
\* that dies is one that stalls: it must not happen a second time.)
Dies(a) ==
  /\ run[a].pc \notin {"idle", "ok", "error", "lost"}
  /\ now < FaultsEnd
  /\ ledger' = Forgotten(a)
  /\ Answer(a)
  /\ UNCHANGED <<now, tables, objects, requests, history>>

-----------------------------------------------------------------------------
(* PUT /api/sync/snapshot *)

\* Reads the head.  A replay of the committed upload goes straight to the
\* cleanup; anything else must name the head as its base, with a later clock.
Receive(u, k) ==
  /\ run[u].pc = "idle"
  /\ now <= LastRequest
  /\ requests[k] # NoRequest
  /\ status[requests[k].device] \notin {"revoked", "gone"}
  /\ \/ /\ HeadIs(k) /\ ~KeyCurrent(k)
        /\ acknowledged' = acknowledged \cup {k}
        /\ UNCHANGED run
     \/ /\ HeadIs(k) /\ KeyCurrent(k)
        /\ run' = [run EXCEPT ![u] = [Idle EXCEPT !.pc = "cleanup", !.key = k, !.stamp = now]]
        /\ UNCHANGED acknowledged
     \/ /\ KeyCurrent(k) /\ BaseCurrent(k) /\ ClockLater(k)
        /\ run' = [run EXCEPT ![u] = [Idle EXCEPT !.pc = "claim", !.key = k, !.stamp = now]]
        /\ UNCHANGED acknowledged
  /\ UNCHANGED <<now, tables, ledger, objects, requests, installed>>

\* The conditions of CLAIM_NEW_SNAPSHOT_QUERY: the row is new or still pending.
Claimable(k) ==
  /\ Trusted(requests[k].device)
  /\ KeyCurrent(k)
  /\ BaseCurrent(k)
  /\ ledger[k].state \in {"absent", "pending"}

\* A second invocation for the same upload takes the pending row over.  A
\* claim that writes nothing is answered with a conflict.
Claim(u) ==
  LET k == run[u].key IN
  /\ run[u].pc = "claim"
  /\ \/ /\ Claimable(k)
        /\ ledger' = [ledger EXCEPT ![k] =
             [state |-> "pending", token |-> u, due |-> run[u].stamp + Lease,
              collector |-> NoToken]]
        /\ Goto(u, "put")
     \/ ~Claimable(k) /\ Answer(u) /\ UNCHANGED ledger
  /\ UNCHANGED <<now, tables, objects, requests, history>>

PutObject(u) ==
  /\ run[u].pc = "put"
  /\ objects' = objects \cup {run[u].key}
  /\ Goto(u, "commit")
  /\ UNCHANGED <<now, tables, ledger, requests, history>>

\* The put reports an error; R2 may have stored the object all the same.
PutFails(u) ==
  /\ run[u].pc = "put"
  /\ now < FaultsEnd
  /\ objects' \in {objects, objects \cup {run[u].key}}
  /\ Goto(u, "release")
  /\ UNCHANGED <<now, tables, ledger, requests, history>>

\* Mutant of HoldsLease: the token and the time are trusted, not the state.
HoldsToken(u) ==
  ledger[run[u].key].token = u /\ ledger[run[u].key].due >= run[u].stamp

\* The invocation still holds its row, for the time it believes it to be.
HoldsLease(u) ==
  /\ ledger[run[u].key].state = "pending"
  /\ ledger[run[u].key].token = u
  /\ ledger[run[u].key].due >= run[u].stamp

\* Mutants of CommitReady: the base, or the vault key, is checked only on arrival.
CommitReadyAnyBase(u) ==
  LET k == run[u].key IN
  ClockLater(k) /\ KeyCurrent(k) /\ Trusted(requests[k].device) /\ HoldsLease(u)
CommitReadyAnyKey(u) ==
  LET k == run[u].key IN
  BaseCurrent(k) /\ ClockLater(k) /\ Trusted(requests[k].device) /\ HoldsLease(u)

\* Every condition of the commit batch.  They are checked by its first
\* statement; when it writes nothing, the rest writes nothing or aborts.
CommitReady(u) ==
  LET k == run[u].key IN
  /\ BaseCurrent(k)
  /\ ClockLater(k)
  /\ KeyCurrent(k)
  /\ Trusted(requests[k].device)
  /\ HoldsLease(u)
  /\ ~InCleaning(k)

\* The key whose row the upload overwrites (NoKey when the device has none):
\* its object loses its last reference in the same batch.
DisplacedKey(u) == snapshots[requests[run[u].key].device].key

CommitLedger(u) ==
  [k \in Keys |->
    IF k = run[u].key
      THEN [ledger[k] EXCEPT !.state = "referenced", !.due = run[u].stamp]
    ELSE IF k = DisplacedKey(u) /\ ledger[k].state = "referenced"
      THEN [ledger[k] EXCEPT !.state = "ready"]
    ELSE ledger[k]]

\* The batch commits.  Its answer may be lost on the way back, and the
\* handler then takes the failure path although the upload is the head.
Commit(u) ==
  LET k == run[u].key IN
  /\ run[u].pc = "commit"
  /\ CommitReady(u)
  /\ head' = RefOf(k)
  /\ snapshots' = [snapshots EXCEPT ![requests[k].device] =
       [key |-> k, rev |-> requests[k].base.rev + 1, clock |-> requests[k].clock,
        gen |-> requests[k].gen]]
  /\ ledger' = CommitLedger(u)
  /\ installed' = installed \cup {k}
  /\ Goto(u, "cleanup") \/ (now < FaultsEnd /\ Goto(u, "release"))
  /\ UNCHANGED <<now, status, generation, rotations, objects, requests, acknowledged>>

\* The batch writes nothing: a condition failed, or D1 did.  Only an abort the
\* handler knows for a lost race is followed by a second look at the head.
CommitFails(u) ==
  /\ run[u].pc = "commit"
  /\ \/ /\ ~CommitReady(u)
        /\ run' = [run EXCEPT ![u] = [@ EXCEPT !.pc = "release", !.resume = "reread"]]
     \/ now < FaultsEnd /\ Goto(u, "release")
  /\ UNCHANGED <<now, tables, ledger, objects, requests, history>>

\* releaseFailedSnapshotWrite: give the row to garbage collection at once if
\* it is still this invocation's, then collect.
Abandonable(u) ==
  /\ ledger[run[u].key].state \in {"pending", "ready"}
  /\ ledger[run[u].key].token = u
  /\ ~Referenced(run[u].key)

Release(u) ==
  /\ run[u].pc = "release"
  /\ ledger' = IF Abandonable(u)
                 THEN [ledger EXCEPT ![run[u].key] =
                         [@ EXCEPT !.state = "ready", !.due = run[u].stamp]]
                 ELSE ledger
  /\ Goto(u, "collect")
  /\ UNCHANGED <<now, tables, objects, requests, history>>

\* concurrentUploadResult: the refused upload may be the head after all,
\* committed by another invocation.  If it is not, the answer is a conflict.
Reread(u) ==
  /\ run[u].pc = "reread"
  /\ IF HeadIs(run[u].key) THEN Goto(u, "cleanup") ELSE Answer(u)
  /\ UNCHANGED <<now, tables, ledger, objects, requests, history>>

-----------------------------------------------------------------------------
(* Garbage collection, run by a request or by a cron invocation *)

\* Mutant of Collectable: what a rotation staged is not spared.
CollectableStaged(k, t) ==
  /\ ledger[k].state \in {"pending", "ready", "deleting"}
  /\ ledger[k].due <= t
  /\ ~Referenced(k)

\* Rows the claim statement takes: expired leases and deletions that nobody
\* has finished in time, of keys nothing refers to.
Collectable(k, t) ==
  /\ ledger[k].state \in {"pending", "ready", "deleting"}
  /\ ledger[k].due <= t
  /\ ~Referenced(k)
  /\ ~Retained(k)

\* A cleanup or a reset collects the rows of its user; rows that inventory
\* adds have none, and once the account is deleted no row has one.  A release, a
\* deletion (by the owner's hash) and a cron collect all of them.
Scope(a) ==
  IF run[a].resume \notin {"clean", "ok"} THEN Keys
  ELSE IF AccountGone THEN {} ELSE Keys \ LegacyKeys

Collected(a) == {k \in Scope(a) : Collectable(k, run[a].stamp)}

\* A pass that takes longer than DELETE_RETRY_SECONDS may lose its rows.
RetryAt(a) == run[a].stamp + Retry

CollectClaim(a) ==
  /\ run[a].pc = "collect"
  /\ ledger' = [k \in Keys |->
       IF k \in Collected(a)
         THEN [ledger[k] EXCEPT !.state = "deleting", !.due = RetryAt(a),
                                !.collector = a]
         ELSE ledger[k]]
  /\ \/ /\ Collected(a) # {}
        /\ run' = [run EXCEPT ![a] = [@ EXCEPT !.pc = "delete", !.todo = Collected(a)]]
     \/ Collected(a) = {} /\ Return(a, run[a].resume)
  /\ UNCHANGED <<now, tables, objects, requests, history>>

DeleteObject(a) ==
  /\ run[a].pc = "delete"
  /\ \E k \in run[a].todo :
       /\ objects' = objects \ {k}
       /\ run' = [run EXCEPT ![a] = [@ EXCEPT !.pc = "mark", !.at = k]]
  /\ UNCHANGED <<now, tables, ledger, requests, history>>

\* The row is still this pass's: another pass may have taken it over after
\* DELETE_RETRY_SECONDS.
StillMine(a) ==
  /\ ledger[run[a].at].state = "deleting"
  /\ ledger[run[a].at].collector = a

MarkDeleted(a) ==
  /\ run[a].pc = "mark"
  /\ StillMine(a)
  /\ ledger' = [ledger EXCEPT ![run[a].at] =
       [@ EXCEPT !.state = "deleted", !.due = 0, !.collector = NoToken]]
  /\ \/ /\ run[a].todo # {run[a].at}
        /\ run' = [run EXCEPT ![a] =
             [@ EXCEPT !.pc = "delete", !.todo = run[a].todo \ {run[a].at}, !.at = NoKey]]
     \/ run[a].todo = {run[a].at} /\ Return(a, run[a].resume)
  /\ UNCHANGED <<now, tables, objects, requests, history>>

\* An R2 delete or the statement after it throws, or the row has been taken
\* over.  Release, reset and cron swallow the error; a cleanup after a
\* committed upload lets it fail the request.
CollectFails(a) ==
  /\ \/ run[a].pc = "mark" /\ ~StillMine(a)
     \/ run[a].pc \in {"delete", "mark"} /\ now < FaultsEnd
  /\ ledger' = Forgotten(a)
  /\ Return(a, IF run[a].resume = "clean" THEN "idle" ELSE run[a].resume)
  /\ UNCHANGED <<now, tables, objects, requests, history>>

-----------------------------------------------------------------------------
(* Rotation cleanup, after an upload is known to be the head *)

\* Mutant of Cleanable: any head of the device will do, whatever its key.
CleanableAnyKey(g, r) ==
  rotations[g].phase = "completed" /\ head # NoHead /\ head.snap = r.device

\* MARK_CLEANUP_READY_QUERY: the device's snapshot is the head, under the
\* current key, so every finished rotation up to that key may be cleaned.
Cleanable(g, r) ==
  /\ rotations[g].phase = "completed"
  /\ g <= r.gen
  /\ r.gen = generation
  /\ head # NoHead /\ head.snap = r.device
  /\ snapshots[r.device].gen = r.gen

StartCleanup(u) ==
  /\ run[u].pc = "cleanup"
  /\ rotations' = [g \in RotationIds |->
       IF Cleanable(g, requests[run[u].key])
         THEN [rotations[g] EXCEPT !.phase = "cleaning"]
         ELSE rotations[g]]
  /\ Goto(u, "queue")
  /\ UNCHANGED <<now, status, generation, head, snapshots, ledger, objects, requests,
                 history>>

\* The cleanup is done with the rotations it has read: the upload succeeds.
Succeed(u) == Answer(u) /\ acknowledged' = acknowledged \cup {run[u].key}

ReadCleaning(u) ==
  LET ready == {g \in RotationIds : rotations[g].phase = "cleaning"} IN
  /\ run[u].pc = "queue"
  /\ \/ ready = {} /\ Succeed(u)
     \/ /\ ready # {}
        /\ run' = [run EXCEPT ![u] = [@ EXCEPT !.pc = "metadata", !.queue = ready]]
        /\ UNCHANGED acknowledged
  /\ UNCHANGED <<now, tables, ledger, objects, requests, installed>>

\* The rotation the cleanup is at: ascending by new_generation.
NextRotation(u, g) == g \in run[u].queue /\ \A h \in run[u].queue : g <= h

\* The snapshot rows the metadata batch deletes: staged, not the head's, and
\* not encrypted under the rotation's own new key.
Doomed(g) ==
  {d \in Devices : /\ snapshots[d].key \in rotations[g].staged
                   /\ ~(head # NoHead /\ head.snap = d)
                   /\ snapshots[d].gen # g}

FencedLedger(g, t) ==
  [k \in Keys |->
    IF k \in rotations[g].staged /\ ledger[k].state = "referenced"
      THEN [ledger[k] EXCEPT !.state = "ready", !.due = t]
      ELSE ledger[k]]

CleanMetadata(u) ==
  /\ run[u].pc = "metadata"
  /\ \E g \in RotationIds :
       /\ NextRotation(u, g)
       /\ ledger' = FencedLedger(g, run[u].stamp)
       /\ snapshots' = [d \in Devices |-> IF d \in Doomed(g) THEN NoRow ELSE snapshots[d]]
  /\ run' = [run EXCEPT ![u] = [@ EXCEPT !.pc = "collect", !.resume = "clean"]]
  /\ UNCHANGED <<now, status, generation, head, rotations, objects, requests, history>>

\* Every staged object is either still referred to or deleted.
StorageClean(g) ==
  \A k \in rotations[g].staged : Referenced(k) \/ ledger[k].state = "deleted"

MarkClean(u) ==
  /\ run[u].pc = "clean"
  /\ \E g \in RotationIds :
       /\ NextRotation(u, g)
       /\ rotations' = IF rotations[g].phase = "cleaning" /\ StorageClean(g)
                         THEN [rotations EXCEPT ![g].phase = "cleaned"]
                         ELSE rotations
       /\ \/ run[u].queue = {g} /\ Succeed(u)
          \/ /\ run[u].queue # {g}
             /\ run' = [run EXCEPT ![u] =
                  [@ EXCEPT !.pc = "metadata", !.queue = run[u].queue \ {g}]]
             /\ UNCHANGED acknowledged
  /\ UNCHANGED <<now, status, generation, head, snapshots, ledger, objects, requests,
                 installed>>

-----------------------------------------------------------------------------
(* POST /api/sync/reset *)

\* The reset's audit event exists: its batch has committed.
ResetDone == \E r \in Resetters : run[r].resume = "ok"

\* A replay only collects.
StartReset(r) ==
  /\ run[r].pc = "idle"
  /\ now <= LastRequest
  /\ ~AccountGone
  /\ run' = [run EXCEPT ![r] =
       IF ResetDone THEN [Idle EXCEPT !.pc = "collect", !.stamp = now, !.resume = "ok"]
                    ELSE [Idle EXCEPT !.pc = "reset", !.stamp = now]]
  /\ UNCHANGED <<now, tables, ledger, objects, requests, history>>

\* Mutant of ResetLedger: a write in flight loses its lease.
ResetLeases(t) ==
  [k \in Keys |->
    IF ledger[k].state \in {"pending", "referenced"}
      THEN [ledger[k] EXCEPT !.state = "ready", !.due = t]
      ELSE ledger[k]]

\* SYNC_R2_FENCE_USER_QUERY: in-flight and committed writes both become
\* garbage; a write in flight keeps its lease, so that its put can land first.
ResetLedger(t) ==
  [k \in Keys |->
    CASE ledger[k].state = "pending"    -> [ledger[k] EXCEPT !.state = "ready"]
      [] ledger[k].state = "referenced" -> [ledger[k] EXCEPT !.state = "ready", !.due = t]
      [] OTHER -> ledger[k]]

\* Mutant of Reset: the receipt is only looked for when the request arrives.
ResetUnguarded(r) ==
  /\ run[r].pc = "reset"
  /\ ledger' = ResetLedger(run[r].stamp)
  /\ head' = NoHead
  /\ snapshots' = [d \in Devices |-> NoRow]
  /\ run' = [run EXCEPT ![r] = [@ EXCEPT !.pc = "collect", !.resume = "ok"]]
  /\ UNCHANGED <<now, status, generation, rotations, objects, requests, history>>

\* The batch: fence the ledger, open every finished rotation to cleanup, delete
\* the head and every snapshot row.
Reset(r) ==
  /\ run[r].pc = "reset"
  /\ ~ResetDone
  /\ GateOpen
  /\ ledger' = ResetLedger(run[r].stamp)
  /\ rotations' = [g \in RotationIds |->
       IF rotations[g].phase = "completed"
         THEN [rotations[g] EXCEPT !.phase = "cleaning"]
         ELSE rotations[g]]
  /\ head' = NoHead
  /\ snapshots' = [d \in Devices |-> NoRow]
  /\ run' = [run EXCEPT ![r] = [@ EXCEPT !.pc = "collect", !.resume = "ok"]]
  /\ UNCHANGED <<now, status, generation, objects, requests, history>>

\* The batch aborts: the event is there already (a replay, answered without a
\* collection), or the gate finds the device or its session gone.
ResetAborts(r) ==
  /\ run[r].pc = "reset"
  /\ Goto(r, IF ResetDone THEN "ok" ELSE "error")
  /\ UNCHANGED <<now, tables, ledger, objects, requests, history>>

-----------------------------------------------------------------------------
(* POST /api/account/delete *)

\* Mutant of DeleteAccount: the fence for the account's objects is missing.
DeleteUnfenced(x) ==
  /\ run[x].pc = "idle"
  /\ GateOpen
  /\ status' = [d \in Devices |-> "gone"]
  /\ head' = NoHead
  /\ snapshots' = [d \in Devices |-> NoRow]
  /\ rotations' = [g \in RotationIds |-> [phase |-> "none", staged |-> {}]]
  /\ \E t \in 0..now :
       run' = [run EXCEPT ![x] = [Idle EXCEPT !.pc = "collect", !.stamp = t]]
  /\ UNCHANGED <<now, generation, ledger, objects, requests, history>>

\* What the request reads before its batch only lets it be refused, or counts; so it
\* begins with the batch, at the time t of its arrival.  The batch: the gate, the fence,
\* and the account's rows in every table; the rotations go with the vault they refer
\* to.  The ledger stays, under the owner's hash.
DeleteAccount(x) ==
  /\ run[x].pc = "idle"
  /\ GateOpen
  /\ status' = [d \in Devices |-> "gone"]
  /\ head' = NoHead
  /\ snapshots' = [d \in Devices |-> NoRow]
  /\ rotations' = [g \in RotationIds |-> [phase |-> "none", staged |-> {}]]
  /\ \E t \in 0..now :
       /\ t <= LastRequest
       /\ ledger' = ResetLedger(t)
       /\ run' = [run EXCEPT ![x] = [Idle EXCEPT !.pc = "collect", !.stamp = t]]
  /\ UNCHANGED <<now, generation, objects, requests, history>>

-----------------------------------------------------------------------------
(* GET /api/sync/snapshot: the token names one head revision *)

StartDownload(w, k) ==
  /\ run[w].pc = "idle"
  /\ HeadIs(k)
  /\ run' = [run EXCEPT ![w] = [Idle EXCEPT !.pc = "get", !.key = k]]
  /\ UNCHANGED <<now, tables, ledger, objects, requests, history>>

GetObject(w) ==
  /\ run[w].pc = "get"
  /\ IF run[w].key \in objects THEN Answer(w) ELSE Goto(w, "recheck")
  /\ UNCHANGED <<now, tables, ledger, objects, requests, history>>

\* throwDownloadStorageFailure: a missing payload is a stale token when the
\* head has moved on, and a loss when it has not.
Recheck(w) ==
  /\ run[w].pc = "recheck"
  /\ IF HeadIs(run[w].key) THEN Goto(w, "lost") ELSE Answer(w)
  /\ UNCHANGED <<now, tables, ledger, objects, requests, history>>

-----------------------------------------------------------------------------
(* The cron invocation: inventory, collection, finalisation *)

ListObjects(c) ==
  /\ run[c].pc = "idle"
  /\ run' = [run EXCEPT ![c] =
       [Idle EXCEPT !.pc = "inventory", !.stamp = now, !.resume = "finalize",
                    !.listed = objects]]
  /\ UNCHANGED <<now, tables, ledger, objects, requests, history>>

\* The inventory task fails, and the next one runs.
InventoryFails(c) ==
  /\ run[c].pc = "inventory"
  /\ now < FaultsEnd
  /\ run' = [run EXCEPT ![c] = [@ EXCEPT !.pc = "collect", !.listed = {}]]
  /\ UNCHANGED <<now, tables, ledger, objects, requests, history>>

\* Mutant of Unaccounted: a key that was deleted once stays so.
UnaccountedNew(k) == ledger[k].state = "absent" /\ ~Referenced(k) /\ ~Retained(k)

\* INVENTORY_CANDIDATE_QUERY, for every key of the listing, which is old news
\* by now: unknown or deleted keys that nothing refers to become garbage.
Unaccounted(k) ==
  /\ ledger[k].state \in {"absent", "deleted"}
  /\ ~Referenced(k)
  /\ ~Retained(k)

RecordInventory(c) ==
  /\ run[c].pc = "inventory"
  /\ ledger' = [k \in Keys |->
       IF k \in run[c].listed /\ Unaccounted(k)
         THEN [ledger[k] EXCEPT !.state = "ready", !.due = run[c].stamp]
         ELSE ledger[k]]
  /\ run' = [run EXCEPT ![c] = [@ EXCEPT !.pc = "collect", !.listed = {}]]
  /\ UNCHANGED <<now, tables, objects, requests, history>>

FinalizeRotations(c) ==
  /\ run[c].pc = "finalize"
  /\ rotations' = [g \in RotationIds |->
       IF rotations[g].phase = "cleaning" /\ StorageClean(g)
         THEN [rotations[g] EXCEPT !.phase = "cleaned"]
         ELSE rotations[g]]
  /\ Answer(c)
  /\ UNCHANGED <<now, status, generation, head, snapshots, ledger, objects, requests,
                 history>>

-----------------------------------------------------------------------------
Environment ==
  \/ Tick
  \/ \E d \in Devices : Approve(d) \/ Rotate(d) \/ Dismiss(d)
  \/ \E d \in Devices, k \in Keys : Build(d, k)

Upload(u) ==
  \/ \E k \in Keys : Receive(u, k)
  \/ Claim(u) \/ PutObject(u) \/ PutFails(u)
  \/ Commit(u) \/ CommitFails(u) \/ Release(u) \/ Reread(u)
  \/ StartCleanup(u) \/ ReadCleaning(u) \/ CleanMetadata(u) \/ MarkClean(u)

Collection(a) ==
  CollectClaim(a) \/ DeleteObject(a) \/ MarkDeleted(a) \/ CollectFails(a)

Download(w) ==
  (\E k \in Keys : StartDownload(w, k)) \/ GetObject(w) \/ Recheck(w)

Cron(c) ==
  ListObjects(c) \/ InventoryFails(c) \/ RecordInventory(c) \/ FinalizeRotations(c)

Next ==
  \/ Environment
  \/ \E u \in Uploaders : Upload(u)
  \/ \E r \in Resetters : StartReset(r) \/ Reset(r) \/ ResetAborts(r)
  \/ \E x \in Deleters : DeleteAccount(x)
  \/ \E w \in Downloaders : Download(w)
  \/ \E c \in Crons : Cron(c)
  \/ \E a \in Actors : Collection(a)
  \/ \E a \in Actors \ Resetters : Dies(a)

Spec == Init /\ [][Next]_vars

\* The cron fires every hour and an invocation takes its steps; faults end
\* with FaultsEnd.  The clock advances.  Nothing is assumed of the requests.
Maintenance(c) ==
  \/ CollectClaim(c) \/ DeleteObject(c) \/ MarkDeleted(c) \/ CollectFails(c)
  \/ ListObjects(c) \/ RecordInventory(c) \/ FinalizeRotations(c)

FairSpec == Spec /\ WF_vars(Tick) /\ \A c \in Crons : WF_vars(Maintenance(c))

-----------------------------------------------------------------------------
(* Properties *)

TypeOK ==
  /\ now \in Nat
  /\ status \in [Devices -> {"pending", "approved", "revoked", "gone"}]
  /\ generation \in Generations
  /\ head \in HeadRef
  /\ snapshots \in [Devices -> Row \cup {NoRow}]
  /\ ledger \in [Keys -> LedgerRow]
  /\ rotations \in [RotationIds -> Rotation]
  /\ objects \subseteq Keys
  /\ requests \in [Keys -> Request \cup {NoRequest}]
  /\ run \in [Actors -> Invocation]
  /\ installed \subseteq Keys
  /\ acknowledged \subseteq Keys

\* Every snapshot row names an object that R2 holds and the ledger calls
\* referenced: no collector, however late, deletes what a row refers to, and
\* no row is written whose put has not landed.
SnapshotsStored ==
  \A d \in Devices : snapshots[d] # NoRow =>
    /\ snapshots[d].key \in objects
    /\ ledger[snapshots[d].key].state = "referenced"

\* The head always joins with its snapshot row: displacing, cleaning and
\* resetting rows never leaves a head that no query can read.
HeadReadable ==
  head # NoHead =>
    /\ snapshots[head.snap].key = head.key
    /\ snapshots[head.snap].rev = head.rev

\* What a rotation staged is all there until a head encrypted under a later key
\* has replaced it (or a reset has dropped it): a rotation never costs the
\* account its last readable snapshot.
StagedRetained ==
  \A g \in RotationIds : rotations[g].phase = "completed" =>
    rotations[g].staged \subseteq objects

\* Once the cleanup of a rotation has been opened, no head is encrypted under
\* a key older than the rotation's, however the upload that opened it races
\* with later uploads and resets.
CleanupAfterReencryption ==
  \A g \in RotationIds :
    rotations[g].phase \in {"cleaning", "cleaned"} /\ head # NoHead =>
      snapshots[head.snap].gen >= g

\* A download never finds the payload of the current head missing: the object
\* of a head token disappears only after the head has moved on.
NeverLost == \A w \in Downloaders : run[w].pc # "lost"

\* A head is written by a device that is approved in that very step, under the
\* vault key of that very step: neither a revocation nor a rotation between
\* the claim and the commit lets an upload through.
CommitsAreCurrent ==
  [][head' # head /\ head' # NoHead =>
       /\ Trusted(head'.snap)
       /\ requests[head'.key].gen = generation]_vars

\* While a write holds its row and its lease runs, its put lands on a row that
\* garbage collection still has ahead of it: a reset between the claim and the
\* put leaves no object that only a rescan of the bucket could find.
PutsAreTracked ==
  [][\A u \in Uploaders :
       /\ run[u].pc = "put" /\ run[u].key \in objects'
       /\ ledger[run[u].key].token = u
       /\ now < run[u].stamp + Lease
       => ledger[run[u].key].state \in {"pending", "ready"}]_vars

\* A reset that is delivered again, at the same time or later, leaves alone what has been
\* uploaded since it took effect: from then on only a deletion of the account ends a head.
ReplayWipesNothing == [][ResetDone /\ head # NoHead => head' # NoHead \/ AccountGone']_vars

\* Nothing is stored for an account that has been deleted, though its uploads, cleanups
\* and resets may have been under way: none of them brings a head or a row back.
GoneForGood ==
  AccountGone => head = NoHead /\ \A d \in Devices : snapshots[d] = NoRow

\* The invariant that carries the ones above through every step.  A key that a
\* collection holds is dead: no row, no pending write and no retained rotation
\* names it (DeadKeys).  An upload that reaches its commit has put its object,
\* and only a pending row lets it through (PutBeforeCommit).  A snapshot row is
\* the upload its key names, so no two rows share an object (RowsAreUploads).
\* What a rotation staged is older than the rotation, and stays behind when the
\* cleanup opens (StagedAreOld, CleaningIsQueued).
HeadHasRow ==
  head # NoHead =>
    /\ head.snap \in Devices /\ head.key \in Keys
    /\ snapshots[head.snap].key = head.key
    /\ snapshots[head.snap].rev = head.rev

RowsAreUploads ==
  \A d \in Devices : snapshots[d] # NoRow =>
    LET r == requests[snapshots[d].key] IN
    /\ r.device = d
    /\ snapshots[d].gen = r.gen
    /\ r.gen <= generation

DeadKeys ==
  \A a \in Actors :
    /\ run[a].pc = "mark" => run[a].at \in run[a].todo
    /\ \A k \in run[a].todo :
         /\ ledger[k].state \in {"ready", "deleting", "deleted"}
         /\ ~Retained(k)

PutBeforeCommit ==
  \A u \in Uploaders :
    /\ run[u].pc # "idle" => run[u].key \in Keys /\ requests[run[u].key] # NoRequest
    /\ run[u].pc \in {"put", "commit"} => ledger[run[u].key].state # "absent"
    /\ run[u].pc = "commit" /\ ledger[run[u].key].state = "pending" =>
         run[u].key \in objects

StagedAreOld ==
  \A g \in RotationIds :
    /\ rotations[g].phase # "none" => g <= generation
    /\ rotations[g].phase = "none" => rotations[g].staged = {}
    /\ \A k \in rotations[g].staged :
         /\ ledger[k].state \notin {"absent", "pending"}
         /\ \A d \in Devices : snapshots[d].key = k => snapshots[d].gen < g

CleaningIsQueued ==
  \A a \in Actors : \A g \in run[a].queue :
    rotations[g].phase # "completed" /\ g <= generation

StoreInv ==
  /\ TypeOK
  /\ SnapshotsStored
  /\ StagedRetained
  /\ CleanupAfterReencryption
  /\ HeadHasRow
  /\ RowsAreUploads
  /\ DeadKeys
  /\ PutBeforeCommit
  /\ StagedAreOld
  /\ CleaningIsQueued

\* An object that nothing refers to and no rotation retains leaves the bucket,
\* unless an upload in flight makes it a snapshot's first.
GarbageIsCollected ==
  \A k \in Keys :
    (k \in objects /\ ~Referenced(k) /\ ~Retained(k)) ~>
    (k \notin objects \/ Referenced(k) \/ Retained(k))

\* The snapshot head is a compare-and-swap register (HeadRegister): uploads
\* that a handler accepts have taken effect exactly once, on the very head
\* they were made from, whatever is duplicated, lost, collected or reset.
Register == INSTANCE HeadRegister WITH
  Writes <- Keys,
  Nothing <- NoKey,
  current <- head.key,
  made <- [k \in Keys |-> [from |-> requests[k].base.key, clock |-> requests[k].clock,
                           real |-> requests[k] # NoRequest]],
  effective <- installed,
  accepted <- acknowledged

HeadIsRegister == Register!Spec
=============================================================================
