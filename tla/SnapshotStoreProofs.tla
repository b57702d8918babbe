------------------------- MODULE SnapshotStoreProofs -------------------------
(***************************************************************************)
(* StoreInv is an inductive invariant of SnapshotStore, for any number of  *)
(* devices, payloads, invocations and rotations and any lease.  From it:   *)
(* the head implements HeadRegister, a download of the current head finds  *)
(* its object, and a put whose lease runs is tracked.                      *)
(***************************************************************************)
EXTENDS SnapshotStore, TLAPS

Alive == {"absent", "pending"}
Dead == {"ready", "deleting", "deleted"}

\* What StoreInv says of the stored data, and what it says of invocations.
DataInv ==
  /\ SnapshotsStored
  /\ StagedRetained
  /\ CleanupAfterReencryption
  /\ HeadHasRow
  /\ RowsAreUploads
  /\ StagedAreOld

RunInv == DeadKeys /\ PutBeforeCommit /\ CleaningIsQueued

LEMMA Parts == StoreInv <=> TypeOK /\ DataInv /\ RunInv
  BY DEF StoreInv, DataInv, RunInv

\* A step that leaves the tables alone, keeps every object and lets no row of
\* the ledger leave "referenced" or come back to life keeps the data safe.
LEMMA QuietData ==
  ASSUME TypeOK, DataInv, UNCHANGED <<tables, requests>>, objects \subseteq objects',
         \A k \in Keys :
           /\ ledger[k].state = "referenced" => ledger'[k].state = "referenced"
           /\ ledger[k].state \notin Alive => ledger'[k].state \notin Alive
  PROVE  DataInv'
<1>. USE DEF tables, TypeOK, Row, NoRow, Rotation
<1>1. SnapshotsStored' BY DEF DataInv, SnapshotsStored
<1>2. StagedRetained' BY DEF DataInv, StagedRetained
<1>3. CleanupAfterReencryption' BY DEF DataInv, CleanupAfterReencryption
<1>4. HeadHasRow' BY DEF DataInv, HeadHasRow
<1>5. RowsAreUploads' BY DEF DataInv, RowsAreUploads
<1>6. StagedAreOld' BY DEF DataInv, StagedAreOld, Alive
<1>. QED BY <1>1, <1>2, <1>3, <1>4, <1>5, <1>6 DEF DataInv

THEOREM InitStoreInv == Init => StoreInv
<1>. SUFFICES ASSUME Init PROVE StoreInv
  OBVIOUS
<1>1. TypeOK
  BY ConstantsAssumption
  DEF Init, Trust!Init, TypeOK, Generations, RotationIds, HeadRef, NoHead, Row, NoRow, LedgerRow,
      LedgerStates, NoLedgerRow, Rotation, RotationPhases, Request, NoRequest,
      Invocation, Idle, Places, Resumes
<1>2. DataInv
  BY ConstantsAssumption
  DEF Init, DataInv, SnapshotsStored, StagedRetained, CleanupAfterReencryption,
      HeadHasRow, RowsAreUploads, StagedAreOld, NoRow, NoHead, RotationIds
<1>3. RunInv
  BY DEF Init, RunInv, DeadKeys, PutBeforeCommit, CleaningIsQueued, Idle, Actors, Handlers
<1>. QED BY <1>1, <1>2, <1>3, Parts

-----------------------------------------------------------------------------
(* Every action preserves the types *)

\* The locals an action may give to an invocation.
LEMMA LocalsType ==
  ASSUME NEW v \in Invocation
  PROVE  /\ \A l \in Places : [v EXCEPT !.pc = l] \in Invocation
         /\ \A l \in Places, k \in Keys : [v EXCEPT !.pc = l, !.at = k] \in Invocation
         /\ \A l \in Places, K \in SUBSET Keys : [v EXCEPT !.pc = l, !.todo = K] \in Invocation
         /\ \A l \in Places, K \in SUBSET Keys :
              [v EXCEPT !.pc = l, !.todo = K, !.at = NoKey] \in Invocation
         /\ \A l \in Places, Q \in SUBSET RotationIds :
              [v EXCEPT !.pc = l, !.queue = Q] \in Invocation
         /\ \A l \in Places, m \in Resumes : [v EXCEPT !.pc = l, !.resume = m] \in Invocation
         /\ \A l \in Places : [v EXCEPT !.pc = l, !.listed = {}] \in Invocation
  BY DEF Invocation

LEMMA IdleType ==
  /\ Idle \in Invocation
  /\ \A l \in Places, k \in Keys : [Idle EXCEPT !.pc = l, !.key = k] \in Invocation
  /\ \A l \in Places, k \in Keys, n \in Nat :
       [Idle EXCEPT !.pc = l, !.key = k, !.stamp = n] \in Invocation
  /\ \A l \in Places, n \in Nat : [Idle EXCEPT !.pc = l, !.stamp = n] \in Invocation
  /\ \A l \in Places, n \in Nat, m \in Resumes :
       [Idle EXCEPT !.pc = l, !.stamp = n, !.resume = m] \in Invocation
  /\ \A l \in Places, n \in Nat, m \in Resumes, K \in SUBSET Keys :
       [Idle EXCEPT !.pc = l, !.stamp = n, !.resume = m, !.listed = K] \in Invocation
<1>1. Idle \in Invocation
  BY DEF Idle, Invocation, Places, Resumes
<1>. QED BY <1>1 DEF Invocation

\* The rows an action may give to the ledger.
LEMMA LedgerRowType ==
  ASSUME NEW v \in LedgerRow
  PROVE  /\ \A l \in LedgerStates : [v EXCEPT !.state = l] \in LedgerRow
         /\ \A l \in LedgerStates, n \in Nat : [v EXCEPT !.state = l, !.due = n] \in LedgerRow
         /\ \A l \in LedgerStates, n \in Nat, t \in Actors \cup {NoToken} :
              [v EXCEPT !.state = l, !.due = n, !.collector = t] \in LedgerRow
         /\ [v EXCEPT !.collector = NoToken] \in LedgerRow
  BY DEF LedgerRow

LEMMA TypeStep == StoreInv /\ [Next]_vars => TypeOK'
<1>. SUFFICES ASSUME StoreInv, [Next]_vars PROVE TypeOK'
  OBVIOUS
<1>0. TypeOK /\ PutBeforeCommit
  BY DEF StoreInv
<1>1. \A a \in Actors : run[a] \in Invocation /\ run[a].stamp \in Nat
                        /\ run[a].todo \in SUBSET Keys /\ run[a].queue \in SUBSET RotationIds
                        /\ run[a].resume \in Resumes
  BY <1>0 DEF TypeOK, Invocation
<1>2. \A k \in Keys : ledger[k] \in LedgerRow
  BY <1>0 DEF TypeOK
<1>3. ASSUME NEW a \in Actors, NEW v \in Invocation, run' = [run EXCEPT ![a] = v]
      PROVE  run' \in [Actors -> Invocation]
  BY <1>0, <1>3 DEF TypeOK
<1>4. ASSUME NEW a \in Actors, NEW l \in Places, Goto(a, l) PROVE run' \in [Actors -> Invocation]
  <2>1. run' = [run EXCEPT ![a] = [run[a] EXCEPT !.pc = l]]
    BY <1>4 DEF Goto
  <2>. QED BY <2>1, <1>1, <1>3, LocalsType
<1>5. ASSUME NEW a \in Actors, Answer(a) PROVE run' \in [Actors -> Invocation]
  BY <1>5, <1>3, IdleType DEF Answer
<1>6. ASSUME NEW a \in Actors, NEW l \in Resumes, Return(a, l)
      PROVE  run' \in [Actors -> Invocation]
  <2>1. l \in Places /\ {} \in SUBSET Keys
    BY DEF Resumes, Places
  <2>2. [run[a] EXCEPT !.pc = l, !.todo = {}, !.at = NoKey] \in Invocation
    BY <2>1, <1>1, LocalsType
  <2>. QED BY <1>6, <2>2, <1>3, IdleType DEF Return
<1>7. ASSUME NEW a \in Actors PROVE Forgotten(a) \in [Keys -> LedgerRow]
  BY <1>2, LedgerRowType DEF Forgotten
<1>8. CASE UNCHANGED vars
  BY <1>8, <1>0 DEF vars, tables, history, TypeOK
<1>9. CASE Environment
  <2>1. CASE Tick
    BY <2>1, <1>0 DEF Tick, tables, history, TypeOK
  <2>2. ASSUME NEW d \in Devices, Approve(d) PROVE TypeOK'
    BY <2>2, <1>0 DEF Approve, Trust!Approve, history, TypeOK
  <2>3. ASSUME NEW d \in Devices, Rotate(d) PROVE TypeOK'
    BY <2>3, <1>0, ConstantsAssumption
    DEF Rotate, Trust!Rotate, history, TypeOK, Generations, RotationIds, Rotation, RotationPhases
  <2>5. ASSUME NEW d \in Devices, Dismiss(d) PROVE TypeOK'
    BY <2>5, <1>0 DEF Dismiss, Trust!Dismiss, history, TypeOK
  <2>4. ASSUME NEW d \in Devices, NEW k \in Keys, Build(d, k) PROVE TypeOK'
    <3>1. PICK c \in {HeadClock, HeadClock + 1} :
            requests' = [requests EXCEPT ![k] =
              [device |-> d, base |-> head, clock |-> c, gen |-> generation]]
      BY <2>4 DEF Build
    <3>2. c \in Nat
      BY <3>1, <1>0 DEF HeadClock, StoreInv, HeadHasRow, TypeOK, Row, NoRow
    <3>. QED BY <2>4, <3>1, <3>2, <1>0 DEF Build, tables, history, TypeOK, Request
  <2>. QED BY <1>9, <2>1, <2>2, <2>3, <2>4, <2>5 DEF Environment
<1>10. ASSUME NEW u \in Uploaders, Upload(u) PROVE TypeOK'
  <2>. DEFINE k == run[u].key
  <2>0. u \in Actors
    BY DEF Actors, Handlers
  <2>1. ASSUME NEW j \in Keys, Receive(u, j) PROVE TypeOK'
    <3>1. CASE UNCHANGED run
      BY <2>1, <3>1, <1>0 DEF Receive, tables, TypeOK
    <3>2. ASSUME NEW l \in {"cleanup", "claim"},
                 run' = [run EXCEPT ![u] = [Idle EXCEPT !.pc = l, !.key = j, !.stamp = now]],
                 UNCHANGED acknowledged
          PROVE  TypeOK'
      <4>1. now \in Nat /\ l \in Places
        BY <1>0 DEF TypeOK, Places
      <4>2. run' \in [Actors -> Invocation]
        BY <3>2, <4>1, <2>0, <1>3, IdleType
      <4>. QED BY <2>1, <3>2, <4>2, <1>0 DEF Receive, tables, TypeOK
    <3>. QED BY <2>1, <3>1, <3>2 DEF Receive
  <2>2. CASE Claim(u)
    <3>1. run' \in [Actors -> Invocation]
      BY <2>2, <2>0, <1>4, <1>5 DEF Claim, Places
    <3>2. ledger' \in [Keys -> LedgerRow]
      BY <2>2, <2>0, <1>0, <1>1, ConstantsAssumption DEF Claim, LedgerRow, LedgerStates, TypeOK
    <3>. QED BY <2>2, <3>1, <3>2, <1>0 DEF Claim, tables, history, TypeOK
  <2>3. CASE PutObject(u)
    <3>1. run' \in [Actors -> Invocation]
      BY <2>3, <2>0, <1>4 DEF PutObject, Places
    <3>. QED BY <2>3, <3>1, <2>0, <1>0 DEF PutObject, PutBeforeCommit, tables, history, TypeOK
  <2>4. CASE PutFails(u)
    <3>1. run' \in [Actors -> Invocation]
      BY <2>4, <2>0, <1>4 DEF PutFails, Places
    <3>. QED BY <2>4, <3>1, <2>0, <1>0 DEF PutFails, PutBeforeCommit, tables, history, TypeOK
  <2>5. CASE Commit(u)
    <3>1. k \in Keys /\ requests[k] \in Request
      BY <2>5, <2>0, <1>0 DEF Commit, PutBeforeCommit, TypeOK
    <3>2. head' \in HeadRef
      BY <2>5, <3>1 DEF Commit, RefOf, Request, HeadRef
    <3>3. snapshots' \in [Devices -> Row \cup {NoRow}]
      BY <2>5, <3>1, <1>0 DEF Commit, Request, HeadRef, Row, TypeOK
    <3>4. ledger' \in [Keys -> LedgerRow]
      BY <2>5, <2>0, <1>1, <1>2, LedgerRowType DEF Commit, CommitLedger, LedgerStates
    <3>5. run' \in [Actors -> Invocation]
      BY <2>5, <2>0, <1>4 DEF Commit, Places
    <3>. QED BY <2>5, <3>1, <3>2, <3>3, <3>4, <3>5, <1>0 DEF Commit, TypeOK
  <2>6. CASE CommitFails(u)
    <3>1. [run[u] EXCEPT !.pc = "release", !.resume = "reread"] \in Invocation
      BY <2>0, <1>1, LocalsType DEF Places, Resumes
    <3>2. run' \in [Actors -> Invocation]
      BY <2>6, <2>0, <3>1, <1>3, <1>4 DEF CommitFails, Places
    <3>. QED BY <2>6, <3>2, <1>0 DEF CommitFails, tables, history, TypeOK
  <2>7. CASE Release(u)
    <3>1. ledger' \in [Keys -> LedgerRow]
      BY <2>7, <2>0, <1>0, <1>1, <1>2, LedgerRowType DEF Release, LedgerStates, TypeOK
    <3>2. run' \in [Actors -> Invocation]
      BY <2>7, <2>0, <1>4 DEF Release, Places
    <3>. QED BY <2>7, <3>1, <3>2, <1>0 DEF Release, tables, history, TypeOK
  <2>8. CASE Reread(u)
    <3>1. run' \in [Actors -> Invocation]
      BY <2>8, <2>0, <1>4, <1>5 DEF Reread, Places
    <3>. QED BY <2>8, <3>1, <1>0 DEF Reread, tables, history, TypeOK
  <2>9. CASE StartCleanup(u)
    <3>1. rotations' \in [RotationIds -> Rotation]
      BY <2>9, <1>0 DEF StartCleanup, Rotation, RotationPhases, TypeOK
    <3>2. run' \in [Actors -> Invocation]
      BY <2>9, <2>0, <1>4 DEF StartCleanup, Places
    <3>. QED BY <2>9, <3>1, <3>2, <1>0 DEF StartCleanup, history, TypeOK
  <2>10. CASE ReadCleaning(u)
    <3>1. {g \in RotationIds : rotations[g].phase = "cleaning"} \in SUBSET RotationIds
      OBVIOUS
    <3>2. run' \in [Actors -> Invocation]
      BY <2>10, <2>0, <3>1, <1>1, <1>3, <1>5, LocalsType DEF ReadCleaning, Succeed, Places
    <3>3. acknowledged' \subseteq Keys
      BY <2>10, <2>0, <1>0 DEF ReadCleaning, Succeed, PutBeforeCommit, TypeOK
    <3>. QED BY <2>10, <3>2, <3>3, <1>0 DEF ReadCleaning, tables, TypeOK
  <2>11. CASE CleanMetadata(u)
    <3>1. ledger' \in [Keys -> LedgerRow]
      <4>1. PICK g \in RotationIds : ledger' = FencedLedger(g, run[u].stamp)
        BY <2>11 DEF CleanMetadata
      <4>2. \A j \in Keys :
              [ledger[j] EXCEPT !.state = "ready", !.due = run[u].stamp] \in LedgerRow
        BY <2>0, <1>1, <1>2, LedgerRowType DEF LedgerStates
      <4>. QED BY <4>1, <4>2, <1>2 DEF FencedLedger
    <3>2. run' \in [Actors -> Invocation]
      BY <2>11, <2>0, <1>1, <1>3, LocalsType DEF CleanMetadata, Places, Resumes
    <3>3. snapshots' \in [Devices -> Row \cup {NoRow}]
      BY <2>11, <1>0 DEF CleanMetadata, TypeOK
    <3>. QED BY <2>11, <3>1, <3>2, <3>3, <1>0 DEF CleanMetadata, history, TypeOK
  <2>12. CASE MarkClean(u)
    <3>1. PICK g \in RotationIds : MarkClean(u)!2!(g)
      BY <2>12 DEF MarkClean
    <3>2. rotations' \in [RotationIds -> Rotation]
      BY <3>1, <1>0 DEF Rotation, RotationPhases, TypeOK
    <3>3. run' \in [Actors -> Invocation]
      BY <2>0, <3>1, <1>1, <1>3, <1>5, LocalsType DEF Succeed, Places
    <3>4. acknowledged' \subseteq Keys
      BY <2>12, <3>1, <1>0 DEF MarkClean, Succeed, PutBeforeCommit, TypeOK
    <3>. QED BY <2>12, <3>2, <3>3, <3>4, <1>0 DEF MarkClean, TypeOK
  <2>. QED BY <1>10, <2>1, <2>2, <2>3, <2>4, <2>5, <2>6, <2>7, <2>8, <2>9, <2>10, <2>11,
              <2>12 DEF Upload
<1>11. ASSUME NEW r \in Resetters, StartReset(r) \/ Reset(r) \/ ResetAborts(r) PROVE TypeOK'
  <2>0. r \in Actors
    BY DEF Actors, Handlers
  <2>1. CASE StartReset(r)
    <3>1. run' \in [Actors -> Invocation]
      BY <2>1, <2>0, <1>0, <1>3, IdleType DEF StartReset, Places, Resumes, TypeOK
    <3>. QED BY <2>1, <3>1, <1>0 DEF StartReset, tables, history, TypeOK
  <2>2. CASE Reset(r)
    <3>1. ledger' \in [Keys -> LedgerRow]
      BY <2>2, <2>0, <1>1, <1>2, LedgerRowType DEF Reset, ResetLedger, LedgerStates
    <3>2. rotations' \in [RotationIds -> Rotation]
      BY <2>2, <1>0 DEF Reset, Rotation, RotationPhases, TypeOK
    <3>3. head' \in HeadRef /\ snapshots' \in [Devices -> Row \cup {NoRow}]
      BY <2>2 DEF Reset, HeadRef, NoHead
    <3>4. run' \in [Actors -> Invocation]
      BY <2>2, <2>0, <1>1, <1>3, LocalsType DEF Reset, Places, Resumes
    <3>. QED BY <2>2, <3>1, <3>2, <3>3, <3>4, <1>0 DEF Reset, history, TypeOK
  <2>3. CASE ResetAborts(r)
    <3>1. run' \in [Actors -> Invocation]
      BY <2>3, <2>0, <1>4 DEF ResetAborts, Places
    <3>. QED BY <2>3, <3>1, <1>0 DEF ResetAborts, tables, history, TypeOK
  <2>. QED BY <1>11, <2>1, <2>2, <2>3
<1>16. ASSUME NEW x \in Deleters, DeleteAccount(x) PROVE TypeOK'
  <2>0. x \in Actors
    BY DEF Actors, Handlers
  <2>1. PICK t \in 0..now :
          /\ ledger' = ResetLedger(t)
          /\ run' = [run EXCEPT ![x] = [Idle EXCEPT !.pc = "collect", !.stamp = t]]
    BY <1>16 DEF DeleteAccount
  <2>2. t \in Nat
    BY <2>1, <1>0 DEF TypeOK
  <2>3. ledger' \in [Keys -> LedgerRow]
    BY <2>1, <2>2, <1>2, LedgerRowType DEF ResetLedger, LedgerStates
  <2>4. run' \in [Actors -> Invocation]
    BY <2>0, <2>1, <2>2, <1>3, IdleType DEF Places
  <2>5. rotations' \in [RotationIds -> Rotation]
    BY <1>16 DEF DeleteAccount, Rotation, RotationPhases
  <2>6. head' \in HeadRef /\ snapshots' \in [Devices -> Row \cup {NoRow}]
    BY <1>16 DEF DeleteAccount, HeadRef, NoHead
  <2>. QED BY <1>16, <2>3, <2>4, <2>5, <2>6, <1>0 DEF DeleteAccount, history, TypeOK
<1>12. ASSUME NEW w \in Downloaders, Download(w) PROVE TypeOK'
  <2>0. w \in Actors
    BY DEF Actors, Handlers
  <2>1. run' \in [Actors -> Invocation]
    BY <1>12, <2>0, <1>3, <1>4, <1>5, IdleType
    DEF Download, StartDownload, GetObject, Recheck, Places
  <2>. QED BY <1>12, <2>1, <1>0
           DEF Download, StartDownload, GetObject, Recheck, tables, history, TypeOK
<1>13. ASSUME NEW c \in Crons, Cron(c) PROVE TypeOK'
  <2>0. c \in Actors
    BY DEF Actors
  <2>1. run' \in [Actors -> Invocation]
    BY ZenonT(30), <1>13, <2>0, <1>0, <1>1, <1>3, <1>5, IdleType, LocalsType
    DEF Cron, ListObjects, InventoryFails, RecordInventory, FinalizeRotations, Places,
        Resumes, TypeOK
  <2>2. ledger' \in [Keys -> LedgerRow]
    <3>1. \A j \in Keys :
            [ledger[j] EXCEPT !.state = "ready", !.due = run[c].stamp] \in LedgerRow
      BY <2>0, <1>1, <1>2, LedgerRowType DEF LedgerStates
    <3>2. CASE RecordInventory(c)
      BY <3>1, <3>2, <1>2 DEF RecordInventory
    <3>. QED BY <1>13, <3>2, <1>0
             DEF Cron, ListObjects, InventoryFails, FinalizeRotations, TypeOK
  <2>3. rotations' \in [RotationIds -> Rotation]
    <3>1. CASE FinalizeRotations(c)
      BY <3>1, <1>0 DEF FinalizeRotations, Rotation, RotationPhases, TypeOK
    <3>. QED BY <1>13, <3>1, <1>0
             DEF Cron, ListObjects, InventoryFails, RecordInventory, tables, TypeOK
  <2>. QED BY <1>13, <2>1, <2>2, <2>3, <1>0
           DEF Cron, ListObjects, InventoryFails, RecordInventory, FinalizeRotations, tables,
               history, TypeOK
<1>14. ASSUME NEW a \in Actors, Collection(a) PROVE TypeOK'
  <2>1. CASE CollectClaim(a)
    <3>1. ledger' \in [Keys -> LedgerRow]
      <4>1. RetryAt(a) \in Nat
        BY <1>1, ConstantsAssumption DEF RetryAt
      <4>2. \A k \in Keys : [ledger[k] EXCEPT !.state = "deleting", !.due = RetryAt(a),
                                             !.collector = a] \in LedgerRow
        BY <4>1, <1>2 DEF LedgerRow, LedgerStates
      <4>. QED BY <2>1, <4>2, <1>2 DEF CollectClaim
    <3>2. Collected(a) \in SUBSET Keys
      BY ConstantsAssumption DEF Collected, Scope
    <3>3. run' \in [Actors -> Invocation]
      BY <2>1, <3>2, <1>1, <1>3, <1>6, LocalsType DEF CollectClaim, Places
    <3>. QED BY <2>1, <3>1, <3>3, <1>0 DEF CollectClaim, tables, history, TypeOK
  <2>2. CASE DeleteObject(a)
    <3>1. run' \in [Actors -> Invocation]
      BY <2>2, <1>1, <1>3, LocalsType DEF DeleteObject, Places
    <3>. QED BY <2>2, <3>1, <1>0 DEF DeleteObject, tables, history, TypeOK
  <2>3. CASE MarkDeleted(a)
    <3>1. ledger' \in [Keys -> LedgerRow]
      BY <2>3, <1>0, <1>2, LedgerRowType DEF MarkDeleted, LedgerStates, TypeOK
    <3>2. run' \in [Actors -> Invocation]
      BY <2>3, <1>1, <1>3, <1>6, LocalsType DEF MarkDeleted, Places
    <3>. QED BY <2>3, <3>1, <3>2, <1>0 DEF MarkDeleted, tables, history, TypeOK
  <2>4. CASE CollectFails(a)
    <3>1. run' \in [Actors -> Invocation]
      BY <2>4, <1>1, <1>6 DEF CollectFails, Resumes
    <3>. QED BY <2>4, <3>1, <1>0, <1>7 DEF CollectFails, tables, history, TypeOK
  <2>. QED BY <1>14, <2>1, <2>2, <2>3, <2>4 DEF Collection
<1>15. ASSUME NEW a \in Actors, Dies(a) PROVE TypeOK'
  BY <1>15, <1>0, <1>5, <1>7 DEF Dies, tables, history, TypeOK
<1>. QED BY <1>8, <1>9, <1>10, <1>11, <1>12, <1>13, <1>14, <1>15, <1>16 DEF Next

-----------------------------------------------------------------------------
(* Every action preserves what is said of the stored data *)

\* What no step undoes: a dead key stays dead and is not staged again, a row of
\* the ledger that has left "absent" and "pending" does not come back to them,
\* only dead objects are deleted, and an opened cleanup stays open.
Forward ==
  /\ \A k \in Keys :
       /\ ledger[k].state \in Dead => ledger'[k].state \in Dead
       /\ ledger[k].state # "absent" => ledger'[k].state # "absent"
       /\ ledger[k].state \notin Alive => ledger'[k].state \notin Alive
       /\ ledger[k].state \in Dead /\ Retained(k)' => Retained(k)
       /\ k \in objects /\ k \notin objects' => ledger[k].state \in Dead /\ ~Retained(k)
       /\ requests[k] # NoRequest => requests'[k] = requests[k]
  /\ \A g \in RotationIds : rotations[g].phase # "completed" /\ g <= generation =>
       rotations'[g].phase # "completed" /\ g <= generation'

\* The same of a step that leaves the rotations, the requests and the objects.
LEMMA LedgerForward ==
  ASSUME UNCHANGED <<generation, rotations, requests>>, objects \subseteq objects',
         \A k \in Keys :
           /\ ledger[k].state \in Dead => ledger'[k].state \in Dead
           /\ ledger[k].state # "absent" => ledger'[k].state # "absent"
           /\ ledger[k].state \notin Alive => ledger'[k].state \notin Alive
  PROVE  Forward
BY DEF Forward, Retained

LEMMA ForwardStep == StoreInv /\ [Next]_vars => Forward
<1>. SUFFICES ASSUME StoreInv, [Next]_vars PROVE Forward
  OBVIOUS
<1>0. TypeOK /\ SnapshotsStored /\ DeadKeys /\ PutBeforeCommit
  BY DEF StoreInv
<1>1. \A k \in Keys : ledger[k] \in LedgerRow
  BY <1>0 DEF TypeOK
<1>. USE DEF Dead, Alive
<1>2. CASE UNCHANGED vars \/ Tick
  BY <1>2, LedgerForward DEF vars, Tick, tables
<1>3. ASSUME NEW d \in Devices, Approve(d) \/ Dismiss(d) PROVE Forward
  BY <1>3, LedgerForward DEF Approve, Dismiss, Trust!Approve, Trust!Dismiss
<1>4. ASSUME NEW d \in Devices, Rotate(d) PROVE Forward
  <2>0. generation + 1 \in RotationIds
    BY <1>4, <1>0, ConstantsAssumption DEF Rotate, Trust!Rotate, TypeOK, Generations, RotationIds
  <2>1. \A k \in Keys : Referenced(k) => ledger[k].state = "referenced"
    BY <1>0, ConstantsAssumption DEF Referenced, SnapshotsStored, NoRow
  <2>2. \A g \in RotationIds : g # generation + 1 => rotations'[g] = rotations[g]
    BY <1>4, <1>0 DEF Rotate, Trust!Rotate, TypeOK
  <2>3. rotations'[generation + 1].staged = {k \in Keys : Referenced(k)}
    BY <1>4, <1>0, <2>0 DEF Rotate, Trust!Rotate, TypeOK
  <2>4. \A k \in Keys : ledger[k].state \in Dead /\ Retained(k)' => Retained(k)
    BY <2>1, <2>2, <2>3 DEF Retained
  <2>5. \A g \in RotationIds : g <= generation => g # generation + 1 /\ g <= generation + 1
    BY <1>0 DEF TypeOK, Generations, RotationIds
  <2>. QED BY <1>4, <2>2, <2>4, <2>5 DEF Rotate, Trust!Rotate, Forward
<1>5. ASSUME NEW d \in Devices, NEW k \in Keys, Build(d, k) PROVE Forward
  BY <1>5, <1>0 DEF Build, Forward, Retained, tables, TypeOK
<1>6. ASSUME NEW u \in Uploaders, Upload(u) PROVE Forward
  <2>0. u \in Actors
    BY DEF Actors, Handlers
  <2>1. ASSUME NEW k \in Keys, Receive(u, k) PROVE Forward
    BY <2>1, LedgerForward DEF Receive, tables
  <2>2. CASE Claim(u)
    BY <2>2, <1>0, LedgerForward DEF Claim, Claimable, tables, TypeOK
  <2>3. CASE PutObject(u) \/ PutFails(u)
    BY <2>3, LedgerForward DEF PutObject, PutFails, tables
  <2>4. CASE Commit(u)
    BY <2>4, <1>1, LedgerForward
    DEF Commit, CommitReady, HoldsLease, CommitLedger, LedgerRow
  <2>5. CASE CommitFails(u) \/ Reread(u)
    BY <2>5, LedgerForward DEF CommitFails, Reread, tables
  <2>6. CASE Release(u)
    BY <2>6, <1>0, LedgerForward DEF Release, Abandonable, tables, TypeOK
  <2>7. CASE StartCleanup(u)
    <3>1. \A g \in RotationIds : rotations'[g] = rotations[g]
                                 \/ rotations'[g].phase = "cleaning"
      BY <2>7, <1>0 DEF StartCleanup, TypeOK, Rotation
    <3>. QED BY <2>7, <3>1 DEF StartCleanup, Forward, Retained
  <2>8. CASE ReadCleaning(u)
    BY <2>8, LedgerForward DEF ReadCleaning, tables
  <2>9. CASE CleanMetadata(u)
    <3>1. PICK g \in RotationIds : ledger' = FencedLedger(g, run[u].stamp)
      BY <2>9 DEF CleanMetadata
    <3>. QED BY <2>9, <3>1, <1>1, LedgerForward DEF CleanMetadata, FencedLedger, LedgerRow
  <2>10. CASE MarkClean(u)
    <3>1. \A g \in RotationIds : rotations'[g] = rotations[g]
                                 \/ rotations'[g].phase = "cleaned"
      BY <2>10, <1>0 DEF MarkClean, TypeOK, Rotation
    <3>. QED BY <2>10, <3>1 DEF MarkClean, Forward, Retained
  <2>. QED BY <1>6, <2>1, <2>2, <2>3, <2>4, <2>5, <2>6, <2>7, <2>8, <2>9, <2>10 DEF Upload
<1>7. ASSUME NEW r \in Resetters, StartReset(r) \/ ResetAborts(r) PROVE Forward
  BY <1>7, LedgerForward DEF StartReset, ResetAborts, tables
<1>8. ASSUME NEW r \in Resetters, Reset(r) PROVE Forward
  <2>1. \A g \in RotationIds : rotations'[g] = rotations[g] \/ rotations'[g].phase = "cleaning"
    BY <1>8, <1>0 DEF Reset, TypeOK, Rotation
  <2>2. \A k \in Keys : ledger'[k].state = ledger[k].state \/ ledger'[k].state = "ready"
    BY <1>8, <1>1 DEF Reset, ResetLedger, LedgerRow
  <2>3. \A k \in Keys : ledger[k].state = "absent" => ledger'[k].state = "absent"
    BY <1>8 DEF Reset, ResetLedger
  <2>. QED BY <1>8, <2>1, <2>2, <2>3 DEF Reset, Forward, Retained
<1>14. ASSUME NEW x \in Deleters, DeleteAccount(x) PROVE Forward
  <2>1. \A g \in RotationIds : rotations'[g].phase = "none"
    BY <1>14 DEF DeleteAccount
  <2>2. PICK t \in 0..now : ledger' = ResetLedger(t)
    BY <1>14 DEF DeleteAccount
  <2>3. \A k \in Keys : ledger'[k].state = ledger[k].state \/ ledger'[k].state = "ready"
    BY <2>2, <1>1 DEF ResetLedger, LedgerRow
  <2>4. \A k \in Keys : ledger[k].state = "absent" => ledger'[k].state = "absent"
    BY <2>2 DEF ResetLedger
  <2>. QED BY <1>14, <2>1, <2>3, <2>4 DEF DeleteAccount, Forward, Retained
<1>9. ASSUME NEW w \in Downloaders, Download(w) PROVE Forward
  BY <1>9, LedgerForward DEF Download, StartDownload, GetObject, Recheck, tables
<1>10. ASSUME NEW c \in Crons, Cron(c) PROVE Forward
  <2>1. CASE ListObjects(c) \/ InventoryFails(c)
    BY <1>10, <2>1, LedgerForward DEF ListObjects, InventoryFails, tables
  <2>2. CASE RecordInventory(c)
    BY <2>2, <1>1, LedgerForward DEF RecordInventory, Unaccounted, LedgerRow, tables
  <2>3. CASE FinalizeRotations(c)
    <3>1. \A g \in RotationIds : rotations'[g] = rotations[g]
                                 \/ rotations'[g].phase = "cleaned"
      BY <2>3, <1>0 DEF FinalizeRotations, TypeOK, Rotation
    <3>. QED BY <2>3, <3>1 DEF FinalizeRotations, Forward, Retained
  <2>. QED BY <1>10, <2>1, <2>2, <2>3 DEF Cron
<1>11. ASSUME NEW a \in Actors, Forgotten(a) = ledger', UNCHANGED <<tables, objects, requests>>
       PROVE  Forward
  <2>1. \A k \in Keys : ledger'[k].state = ledger[k].state
    BY <1>11, <1>0 DEF Forgotten, TypeOK, LedgerRow
  <2>. QED BY <1>11, <2>1, LedgerForward DEF tables
<1>12. ASSUME NEW a \in Actors, Collection(a) PROVE Forward
  <2>1. CASE CollectClaim(a)
    BY <2>1, <1>1, LedgerForward
    DEF CollectClaim, Collected, Collectable, LedgerRow, tables
  <2>2. CASE DeleteObject(a)
    BY <2>2, <1>0 DEF DeleteObject, DeadKeys, Forward, Retained, tables
  <2>3. CASE MarkDeleted(a)
    BY <2>3, <1>0, LedgerForward DEF MarkDeleted, StillMine, tables, TypeOK
  <2>4. CASE CollectFails(a)
    BY <2>4, <1>11 DEF CollectFails
  <2>. QED BY <1>12, <2>1, <2>2, <2>3, <2>4 DEF Collection
<1>13. ASSUME NEW a \in Actors, Dies(a) PROVE Forward
  BY <1>13, <1>11 DEF Dies
<1>. QED BY <1>2, <1>3, <1>4, <1>5, <1>6, <1>7, <1>8, <1>9, <1>10, <1>12, <1>13,
         <1>14
         DEF Next, Environment

-----------------------------------------------------------------------------
(* Every action preserves what is said of the invocations *)

\* RunInv of a single invocation: what its collection and its cleanup hold ...
Held(a) ==
  /\ \A k \in run[a].todo : ledger[k].state \in Dead /\ ~Retained(k)
  /\ run[a].pc = "mark" => run[a].at \in run[a].todo
  /\ \A g \in run[a].queue : rotations[g].phase # "completed" /\ g <= generation

\* ... and the write of an upload.
Written(a) ==
  a \in Uploaders /\ run[a].pc # "idle" =>
    /\ run[a].key \in Keys /\ requests[run[a].key] # NoRequest
    /\ run[a].pc \in {"put", "commit"} => ledger[run[a].key].state # "absent"
    /\ run[a].pc = "commit" /\ ledger[run[a].key].state = "pending" =>
         run[a].key \in objects

LEMMA RunInvParts ==
  /\ RunInv <=> \A a \in Actors : Held(a) /\ Written(a)
  /\ RunInv' <=> \A a \in Actors : Held(a)' /\ Written(a)'
BY DEF RunInv, DeadKeys, PutBeforeCommit, CleaningIsQueued, Held, Written, Dead, Actors,
       Handlers

\* A step of a that takes nothing on, and one that does not reach its write.
HoldsNoMore(a) ==
  /\ run'[a].todo \subseteq run[a].todo
  /\ run'[a].pc = "mark" => run'[a].at \in run'[a].todo
  /\ run'[a].queue \subseteq run[a].queue

WritesNoMore(a) ==
  a \in Uploaders /\ run'[a].pc # "idle" =>
    /\ run[a].pc # "idle" /\ run'[a].key = run[a].key
    /\ run'[a].pc \in {"put", "commit"} => run'[a].pc = run[a].pc

LEMMA HeldStep ==
  ASSUME StoreInv, Forward, NEW a \in Actors, HoldsNoMore(a) PROVE Held(a)'
<1>1. TypeOK /\ Held(a)
  BY RunInvParts, Parts
<1>2. run[a].todo \subseteq Keys /\ run[a].queue \subseteq RotationIds
  BY <1>1 DEF TypeOK, Invocation
<1>. QED BY <1>1, <1>2 DEF HoldsNoMore, Held, Forward

LEMMA WrittenStep ==
  ASSUME StoreInv, Forward, NEW a \in Actors, WritesNoMore(a) PROVE Written(a)'
<1>1. Written(a)
  BY RunInvParts, Parts
<1>. QED BY <1>1 DEF WritesNoMore, Written, Forward, Alive, Dead

\* Only the invocation that takes the step need be looked at.
LEMMA OneInvocation ==
  ASSUME StoreInv, Forward, NEW a \in Actors,
         \A b \in Actors : b # a => run'[b] = run[b],
         HoldsNoMore(a) \/ Held(a)', WritesNoMore(a) \/ Written(a)'
  PROVE  RunInv'
<1>1. ASSUME NEW b \in Actors, b # a PROVE Held(b)' /\ Written(b)'
  <2>1. HoldsNoMore(b)
    BY <1>1, RunInvParts, Parts DEF HoldsNoMore, Held
  <2>2. WritesNoMore(b)
    BY <1>1 DEF WritesNoMore
  <2>. QED BY <2>1, <2>2, HeldStep, WrittenStep
<1>2. Held(a)' /\ Written(a)'
  BY HeldStep, WrittenStep
<1>3. \A b \in Actors : Held(b)' /\ Written(b)'
  BY <1>1, <1>2
<1>. QED BY <1>3, RunInvParts

LEMMA CalmStep ==
  ASSUME StoreInv, Forward, NEW a \in Actors,
         \/ Answer(a)
         \/ /\ run[a].pc # "idle"
            /\ \/ \E l \in Places \ {"mark", "put", "commit"} : Goto(a, l)
               \/ \E l \in Resumes : Return(a, l)
  PROVE  RunInv'
<1>1. run \in [Actors -> Invocation]
  BY DEF StoreInv, TypeOK
<1>2. CASE Answer(a)
  BY <1>1, <1>2, OneInvocation DEF Answer, Idle, HoldsNoMore, WritesNoMore
<1>3. ASSUME NEW l \in Places \ {"mark", "put", "commit"}, Goto(a, l), run[a].pc # "idle"
      PROVE  RunInv'
  BY <1>1, <1>3, OneInvocation DEF Goto, HoldsNoMore, WritesNoMore, Invocation
<1>4. ASSUME NEW l \in Resumes, Return(a, l), run[a].pc # "idle" PROVE RunInv'
  BY <1>1, <1>4, OneInvocation DEF Return, Resumes, Idle, HoldsNoMore, WritesNoMore, Invocation
<1>. QED BY <1>2, <1>3, <1>4

LEMMA RunStep == StoreInv /\ [Next]_vars => RunInv'
<1>. SUFFICES ASSUME StoreInv, [Next]_vars PROVE RunInv'
  OBVIOUS
<1>0. TypeOK /\ Forward
  BY ForwardStep DEF StoreInv
<1>1. \A a \in Actors : run[a] \in Invocation /\ Held(a) /\ Written(a)
  BY <1>0, RunInvParts, Parts DEF TypeOK
<1>2. ASSUME UNCHANGED run PROVE RunInv'
  <2>1. \A a \in Actors : HoldsNoMore(a) /\ WritesNoMore(a)
    BY <1>1, <1>2 DEF HoldsNoMore, WritesNoMore, Held
  <2>. QED BY <1>0, <2>1, HeldStep, WrittenStep, RunInvParts
<1>3. CASE UNCHANGED vars \/ Environment
  BY <1>2, <1>3 DEF vars, Environment, Tick, Approve, Rotate, Dismiss, Build
<1>4. ASSUME NEW u \in Uploaders, Upload(u) PROVE RunInv'
  <2>0. u \in Actors
    BY DEF Actors, Handlers
  <2>1. ASSUME NEW k \in Keys, Receive(u, k) PROVE RunInv'
    <3>1. ASSUME NEW l \in {"cleanup", "claim"},
                 run' = [run EXCEPT ![u] = [Idle EXCEPT !.pc = l, !.key = k, !.stamp = now]]
          PROVE  RunInv'
      <4>1. HoldsNoMore(u) /\ \A b \in Actors : b # u => run'[b] = run[b]
        BY <1>0, <2>0, <3>1 DEF HoldsNoMore, Idle, TypeOK
      <4>2. Written(u)'
        BY <1>0, <2>0, <2>1, <3>1 DEF Receive, Written, Idle, TypeOK
      <4>. QED BY <1>0, <2>0, <4>1, <4>2, OneInvocation
    <3>. QED BY <1>2, <2>1, <3>1 DEF Receive
  <2>2. CASE Claim(u)
    <3>1. CASE Answer(u)
      BY <1>0, <2>0, <3>1, CalmStep
    <3>2. CASE Claimable(run[u].key) /\ Goto(u, "put")
      <4>1. HoldsNoMore(u) /\ \A b \in Actors : b # u => run'[b] = run[b]
        BY <1>0, <1>1, <2>0, <3>2 DEF Goto, HoldsNoMore, Held, TypeOK, Invocation
      <4>2. Written(u)'
        BY <1>0, <1>1, <2>0, <2>2, <3>2 DEF Claim, Goto, Written, TypeOK, Invocation, Forward
      <4>. QED BY <1>0, <2>0, <4>1, <4>2, OneInvocation
    <3>. QED BY <2>2, <3>1, <3>2 DEF Claim
  <2>3. CASE PutObject(u)
    <3>1. HoldsNoMore(u) /\ \A b \in Actors : b # u => run'[b] = run[b]
      BY <1>0, <1>1, <2>0, <2>3 DEF PutObject, Goto, HoldsNoMore, Held, TypeOK, Invocation
    <3>2. Written(u)'
      BY <1>0, <1>1, <2>0, <2>3
      DEF PutObject, Goto, Written, TypeOK, Invocation, Forward
    <3>. QED BY <1>0, <2>0, <3>1, <3>2, OneInvocation
  <2>4. CASE PutFails(u) \/ Commit(u) \/ Release(u) \/ Reread(u) \/ StartCleanup(u)
    BY <1>0, <2>0, <2>4, CalmStep
    DEF PutFails, Commit, Release, Reread, StartCleanup, Places
  <2>5. CASE CommitFails(u)
    <3>1. CASE Goto(u, "release")
      BY <1>0, <2>0, <2>5, <3>1, CalmStep DEF CommitFails, Places
    <3>2. CASE run' = [run EXCEPT ![u] = [@ EXCEPT !.pc = "release", !.resume = "reread"]]
      BY <1>0, <1>1, <2>0, <2>5, <3>2, OneInvocation
      DEF CommitFails, HoldsNoMore, WritesNoMore, TypeOK, Invocation
    <3>. QED BY <2>5, <3>1, <3>2 DEF CommitFails
  <2>6. CASE ReadCleaning(u)
    <3>1. CASE Succeed(u)
      BY <1>0, <2>0, <3>1, CalmStep DEF Succeed
    <3> DEFINE ready == {g \in RotationIds : rotations[g].phase = "cleaning"}
    <3>2. CASE run' = [run EXCEPT ![u] = [@ EXCEPT !.pc = "metadata", !.queue = ready]]
      <4>1. WritesNoMore(u) /\ \A b \in Actors : b # u => run'[b] = run[b]
        BY <1>0, <1>1, <2>0, <2>6, <3>2 DEF ReadCleaning, WritesNoMore, TypeOK, Invocation
      <4>2. Held(u)'
        <5>1. \A g \in ready : g <= generation
          BY Parts DEF DataInv, StagedAreOld
        <5>. QED BY <1>0, <1>1, <2>0, <2>6, <3>2, <5>1
                 DEF ReadCleaning, Held, Forward, Retained, tables, TypeOK, Invocation
      <4>. QED BY <1>0, <2>0, <4>1, <4>2, OneInvocation
    <3>. QED BY <2>6, <3>1, <3>2 DEF ReadCleaning
  <2>7. CASE CleanMetadata(u)
    BY <1>0, <1>1, <2>0, <2>7, OneInvocation
    DEF CleanMetadata, HoldsNoMore, WritesNoMore, TypeOK, Invocation
  <2>8. CASE MarkClean(u)
    <3>1. CASE Succeed(u)
      BY <1>0, <2>0, <3>1, CalmStep DEF Succeed
    <3>2. ASSUME NEW g \in RotationIds,
                 run' = [run EXCEPT ![u] =
                   [@ EXCEPT !.pc = "metadata", !.queue = run[u].queue \ {g}]]
          PROVE  RunInv'
      BY <1>0, <1>1, <2>0, <2>8, <3>2, OneInvocation
      DEF MarkClean, HoldsNoMore, WritesNoMore, TypeOK, Invocation
    <3>. QED BY <2>8, <3>1, <3>2 DEF MarkClean
  <2>. QED BY <1>4, <2>1, <2>2, <2>3, <2>4, <2>5, <2>6, <2>7, <2>8 DEF Upload
<1>5. ASSUME NEW r \in Resetters, StartReset(r) \/ Reset(r) \/ ResetAborts(r) PROVE RunInv'
  <2>1. r \in Actors /\ r \notin Uploaders
    BY ActorsAssumption DEF Actors, Handlers
  <2>2. WritesNoMore(r)
    BY <2>1 DEF WritesNoMore
  <2>3. HoldsNoMore(r) /\ \A b \in Actors : b # r => run'[b] = run[b]
    <3>1. CASE StartReset(r)
      BY <1>0, <2>1, <3>1 DEF StartReset, Idle, HoldsNoMore, TypeOK
    <3>2. CASE Reset(r)
      BY <1>0, <1>1, <2>1, <3>2 DEF Reset, HoldsNoMore, TypeOK, Invocation
    <3>3. CASE ResetAborts(r)
      BY <1>0, <1>1, <2>1, <3>3 DEF ResetAborts, Goto, HoldsNoMore, TypeOK, Invocation
    <3>. QED BY <1>5, <3>1, <3>2, <3>3
  <2>. QED BY <1>0, <2>1, <2>2, <2>3, OneInvocation
<1>10. ASSUME NEW x \in Deleters, DeleteAccount(x) PROVE RunInv'
  <2>1. x \in Actors /\ x \notin Uploaders
    BY ActorsAssumption DEF Actors, Handlers
  <2>2. WritesNoMore(x)
    BY <2>1 DEF WritesNoMore
  <2>3. HoldsNoMore(x) /\ \A b \in Actors : b # x => run'[b] = run[b]
    BY <1>0, <1>10, <2>1 DEF DeleteAccount, Idle, HoldsNoMore, TypeOK
  <2>. QED BY <1>0, <2>1, <2>2, <2>3, OneInvocation
<1>6. ASSUME NEW w \in Downloaders, Download(w) PROVE RunInv'
  <2>1. w \in Actors /\ w \notin Uploaders
    BY ActorsAssumption DEF Actors, Handlers
  <2>2. WritesNoMore(w)
    BY <2>1 DEF WritesNoMore
  <2>3. HoldsNoMore(w) /\ \A b \in Actors : b # w => run'[b] = run[b]
    <3>1. ASSUME NEW k \in Keys, StartDownload(w, k)
          PROVE  HoldsNoMore(w) /\ \A b \in Actors : b # w => run'[b] = run[b]
      BY <1>0, <2>1, <3>1 DEF StartDownload, Idle, HoldsNoMore, TypeOK
    <3>2. CASE GetObject(w) \/ Recheck(w)
      BY <1>0, <1>1, <2>1, <3>2
      DEF GetObject, Recheck, Goto, Answer, Idle, HoldsNoMore, TypeOK, Invocation
    <3>. QED BY <1>6, <3>1, <3>2 DEF Download
  <2>. QED BY <1>0, <2>1, <2>2, <2>3, OneInvocation
<1>7. ASSUME NEW c \in Crons, Cron(c) PROVE RunInv'
  <2>1. c \in Actors /\ c \notin Uploaders
    BY ActorsAssumption DEF Actors, Handlers
  <2>2. WritesNoMore(c)
    BY <2>1 DEF WritesNoMore
  <2>3. HoldsNoMore(c) /\ \A b \in Actors : b # c => run'[b] = run[b]
    <3>1. CASE ListObjects(c)
      BY <1>0, <2>1, <3>1 DEF ListObjects, Idle, HoldsNoMore, TypeOK
    <3>2. CASE InventoryFails(c) \/ RecordInventory(c)
      <4>1. run' = [run EXCEPT ![c] = [@ EXCEPT !.pc = "collect", !.listed = {}]]
        BY <3>2 DEF InventoryFails, RecordInventory
      <4>. QED BY <1>0, <1>1, <2>1, <4>1 DEF HoldsNoMore, TypeOK, Invocation
    <3>3. CASE FinalizeRotations(c)
      BY <1>0, <2>1, <3>3 DEF FinalizeRotations, Answer, Idle, HoldsNoMore, TypeOK
    <3>. QED BY <1>7, <3>1, <3>2, <3>3 DEF Cron
  <2>. QED BY <1>0, <2>1, <2>2, <2>3, OneInvocation
<1>8. ASSUME NEW a \in Actors, Collection(a) PROVE RunInv'
  <2>1. CASE CollectClaim(a)
    <3>1. CASE Return(a, run[a].resume)
      BY <1>0, <1>1, <2>1, <3>1, CalmStep DEF CollectClaim, Invocation
    <3>2. CASE run' = [run EXCEPT ![a] = [@ EXCEPT !.pc = "delete", !.todo = Collected(a)]]
      <4>1. WritesNoMore(a) /\ \A b \in Actors : b # a => run'[b] = run[b]
        BY <1>0, <1>1, <2>1, <3>2 DEF CollectClaim, WritesNoMore, TypeOK, Invocation
      <4>2. ASSUME NEW k \in Collected(a)
            PROVE  ledger'[k].state = "deleting" /\ ~Retained(k)'
        <5>1. k \in Keys /\ ~Retained(k)
          BY <4>2, ConstantsAssumption DEF Collected, Scope, Collectable
        <5>2. ledger'[k] = [ledger[k] EXCEPT !.state = "deleting", !.due = RetryAt(a),
                                             !.collector = a]
          BY <2>1, <4>2, <5>1 DEF CollectClaim
        <5>3. ledger[k] \in LedgerRow
          BY <1>0, <5>1 DEF TypeOK
        <5>. QED BY <2>1, <5>1, <5>2, <5>3 DEF CollectClaim, Retained, tables, LedgerRow
      <4>3. /\ run'[a].pc = "delete" /\ run'[a].todo = Collected(a)
            /\ run'[a].queue = run[a].queue
        BY <1>0, <1>1, <3>2 DEF TypeOK, Invocation
      <4>4. Held(a)'
        BY <1>1, <2>1, <4>2, <4>3 DEF Held, Dead, CollectClaim, tables
      <4>. QED BY <1>0, <4>1, <4>4, OneInvocation
    <3>. QED BY <2>1, <3>1, <3>2 DEF CollectClaim
  <2>2. CASE DeleteObject(a)
    BY <1>0, <1>1, <2>2, OneInvocation
    DEF DeleteObject, HoldsNoMore, WritesNoMore, TypeOK, Invocation
  <2>3. CASE MarkDeleted(a)
    <3>1. CASE Return(a, run[a].resume)
      BY <1>0, <1>1, <2>3, <3>1, CalmStep DEF MarkDeleted, Invocation
    <3>2. CASE run' = [run EXCEPT ![a] =
                 [@ EXCEPT !.pc = "delete", !.todo = run[a].todo \ {run[a].at}, !.at = NoKey]]
      BY <1>0, <1>1, <2>3, <3>2, OneInvocation
      DEF MarkDeleted, HoldsNoMore, WritesNoMore, TypeOK, Invocation
    <3>. QED BY <2>3, <3>1, <3>2 DEF MarkDeleted
  <2>4. CASE CollectFails(a)
    BY <1>0, <1>1, <2>4, CalmStep DEF CollectFails, Invocation, Resumes
  <2>. QED BY <1>8, <2>1, <2>2, <2>3, <2>4 DEF Collection
<1>9. ASSUME NEW a \in Actors, Dies(a) PROVE RunInv'
  BY <1>0, <1>9, CalmStep DEF Dies
<1>. QED BY <1>3, <1>4, <1>5, <1>6, <1>7, <1>8, <1>9, <1>10 DEF Next

-----------------------------------------------------------------------------
(* Every action preserves what is said of the stored data *)

LEMMA DataStep == StoreInv /\ [Next]_vars => DataInv'
<1>. SUFFICES ASSUME StoreInv, [Next]_vars PROVE DataInv'
  OBVIOUS
<1>0. TypeOK /\ TypeOK' /\ Forward /\ DataInv /\ PutBeforeCommit /\ CleaningIsQueued
  BY TypeStep, ForwardStep, Parts DEF StoreInv
<1>1. \A k \in Keys : ledger[k] \in LedgerRow
  BY <1>0 DEF TypeOK
\* A step that leaves the tables alone.
<1>2. ASSUME UNCHANGED <<tables, requests>>, objects \subseteq objects',
             \A k \in Keys : ledger[k].state = "referenced" => ledger'[k].state = "referenced"
      PROVE  DataInv'
  BY <1>0, <1>2, QuietData DEF Forward
\* A step that only opens or closes cleanups.
<1>3. ASSUME UNCHANGED <<generation, head, snapshots, ledger, objects, requests>>,
             \A g \in RotationIds :
               /\ rotations'[g].staged = rotations[g].staged
               /\ \/ rotations'[g] = rotations[g]
                  \/ /\ rotations[g].phase # "none"
                     /\ rotations'[g].phase \in {"cleaning", "cleaned"}
                     /\ head # NoHead => snapshots[head.snap].gen >= g
      PROVE  DataInv'
  <2>1. SnapshotsStored' /\ HeadHasRow' /\ RowsAreUploads'
    BY <1>0, <1>3 DEF DataInv, SnapshotsStored, HeadHasRow, RowsAreUploads
  <2>2. StagedRetained'
    BY <1>0, <1>3 DEF DataInv, StagedRetained
  <2>3. CleanupAfterReencryption'
    BY <1>0, <1>3 DEF DataInv, CleanupAfterReencryption
  <2>4. StagedAreOld'
    BY <1>0, <1>3 DEF DataInv, StagedAreOld
  <2>. QED BY <2>1, <2>2, <2>3, <2>4 DEF DataInv
<1>4. CASE UNCHANGED vars \/ Tick
  BY <1>2, <1>4 DEF vars, Tick
<1>5. ASSUME NEW d \in Devices, Approve(d) \/ Dismiss(d) PROVE DataInv'
  BY <1>0, <1>5
  DEF Approve, Dismiss, Trust!Approve, Trust!Dismiss, DataInv, SnapshotsStored, StagedRetained,
      CleanupAfterReencryption,
      HeadHasRow, RowsAreUploads, StagedAreOld
<1>6. ASSUME NEW d \in Devices, NEW k \in Keys, Build(d, k) PROVE DataInv'
  <2>1. \A c \in Devices : snapshots[c] # NoRow => snapshots[c].key # k
    BY <1>0, <1>6, ConstantsAssumption DEF Build, DataInv, RowsAreUploads, NoRequest
  <2>2. RowsAreUploads'
    BY <1>0, <1>6, <2>1 DEF Build, tables, DataInv, RowsAreUploads, TypeOK
  <2>. QED BY <1>0, <1>6, <2>2
           DEF Build, tables, DataInv, SnapshotsStored, StagedRetained,
               CleanupAfterReencryption, HeadHasRow, StagedAreOld
<1>7. ASSUME NEW target \in Devices, Rotate(target) PROVE DataInv'
  <2>. DEFINE n == generation + 1
  <2>1. n \in RotationIds
    BY <1>0, <1>7, ConstantsAssumption DEF Rotate, Trust!Rotate, TypeOK, Generations, RotationIds
  <2>2. rotations'[n] = [phase |-> "completed", staged |-> {k \in Keys : Referenced(k)}]
        /\ \A g \in RotationIds : g # n => rotations'[g] = rotations[g]
    BY <1>0, <1>7, <2>1 DEF Rotate, Trust!Rotate, TypeOK
  <2>3. \A k \in Keys : Referenced(k) => k \in objects /\ ledger[k].state = "referenced"
    BY <1>0, ConstantsAssumption DEF Referenced, DataInv, SnapshotsStored, NoRow
  <2>4. SnapshotsStored' /\ HeadHasRow'
    BY <1>0, <1>7 DEF Rotate, Trust!Rotate, DataInv, SnapshotsStored, HeadHasRow
  <2>5. RowsAreUploads'
    BY <1>0, <1>7
    DEF Rotate, Trust!Rotate, DataInv, RowsAreUploads, TypeOK, Generations, Request, NoRequest, Row, NoRow
  <2>6. StagedRetained'
    BY <1>0, <1>7, <2>2, <2>3 DEF Rotate, Trust!Rotate, DataInv, StagedRetained
  <2>7. CleanupAfterReencryption'
    BY <1>0, <1>7, <2>2 DEF Rotate, Trust!Rotate, DataInv, CleanupAfterReencryption
  <2>8. StagedAreOld'
    <3>1. ASSUME NEW g \in RotationIds, rotations'[g].phase # "none" PROVE g <= n
      BY <1>0, <2>1, <2>2, <3>1 DEF DataInv, StagedAreOld, RotationIds, TypeOK, Generations
    <3>2. ASSUME NEW k \in Keys, Referenced(k)
          PROVE  /\ ledger[k].state \notin {"absent", "pending"}
                 /\ \A d \in Devices : snapshots[d].key = k => snapshots[d].gen < n
      <4>1. ASSUME NEW d \in Devices, snapshots[d].key = k PROVE snapshots[d].gen < n
        <5>1. snapshots[d] # NoRow
          BY <4>1, ConstantsAssumption DEF NoRow
        <5>. QED BY <1>0, <5>1 DEF DataInv, RowsAreUploads, TypeOK, Generations, Row
      <4>. QED BY <2>3, <3>2, <4>1
    <3>. QED BY <1>0, <1>7, <2>1, <2>2, <3>1, <3>2 DEF Rotate, Trust!Rotate, DataInv, StagedAreOld
  <2>. QED BY <2>4, <2>5, <2>6, <2>7, <2>8 DEF DataInv
<1>8. ASSUME NEW u \in Uploaders, Upload(u) PROVE DataInv'
  <2>. DEFINE k == run[u].key
  <2>0. u \in Actors
    BY DEF Actors, Handlers
  <2>1. ASSUME NEW j \in Keys, Receive(u, j) PROVE DataInv'
    BY <1>2, <2>1 DEF Receive
  <2>2. CASE Claim(u)
    BY <1>0, <1>2, <2>2 DEF Claim, Claimable, TypeOK
  <2>3. CASE PutObject(u) \/ PutFails(u)
    BY <1>2, <2>3 DEF PutObject, PutFails
  <2>4. CASE Commit(u)
    <3> DEFINE d == requests[k].device
               row == [key |-> k, rev |-> requests[k].base.rev + 1,
                       clock |-> requests[k].clock, gen |-> requests[k].gen]
    <3>1. k \in Keys /\ requests[k] \in Request /\ k \in objects
          /\ ledger[k].state = "pending" /\ d \in Devices
      BY <1>0, <2>4 DEF Commit, CommitReady, HoldsLease, PutBeforeCommit, TypeOK, Request
    <3>2. requests[k].gen = generation
      BY <2>4 DEF Commit, CommitReady, KeyCurrent
    <3>3. snapshots'[d] = row /\ \A c \in Devices : c # d => snapshots'[c] = snapshots[c]
      BY <1>0, <2>4, <3>1 DEF Commit, TypeOK
    <3>4. head' = [rev |-> requests[k].base.rev + 1, snap |-> d, key |-> k]
      BY <2>4 DEF Commit, RefOf
    <3>5. ASSUME NEW c \in Devices, c # d, snapshots[c] # NoRow
          PROVE  snapshots[c].key # k /\ snapshots[c].key # snapshots[d].key
      BY <1>0, <3>1, <3>5, ConstantsAssumption
      DEF DataInv, RowsAreUploads, TypeOK, Row, NoRow
    <3>6. ledger'[k].state = "referenced"
      BY <1>1, <2>4, <3>1 DEF Commit, CommitLedger, LedgerRow
    <3>7. \A j \in Keys : j # k /\ j # snapshots[d].key => ledger'[j] = ledger[j]
      BY <2>4 DEF Commit, CommitLedger, DisplacedKey
    <3>8. SnapshotsStored'
      <4>1. ASSUME NEW c \in Devices, c # d, snapshots[c] # NoRow
            PROVE  snapshots[c].key \in Keys /\ ledger'[snapshots[c].key] = ledger[snapshots[c].key]
        BY <1>0, <3>5, <3>7, <4>1 DEF TypeOK, Row
      <4>2. \A c \in Devices : c # d => snapshots'[c] = snapshots[c]
        BY <3>3
      <4>. QED BY <1>0, <2>4, <3>1, <3>3, <3>6, <4>1, <4>2 DEF Commit, DataInv, SnapshotsStored
    <3>9. StagedRetained'
      BY <1>0, <2>4 DEF Commit, DataInv, StagedRetained
    <3>10. CleanupAfterReencryption'
      <4>1. snapshots'[head'.snap].gen = generation
        BY <3>2, <3>3, <3>4
      <4>. QED BY <1>0, <2>4, <4>1
               DEF Commit, DataInv, CleanupAfterReencryption, StagedAreOld, TypeOK,
                   Generations, RotationIds
    <3>11. HeadHasRow'
      BY <3>1, <3>3, <3>4 DEF HeadHasRow
    <3>12. RowsAreUploads'
      <4>1. UNCHANGED <<requests, generation>>
        BY <2>4 DEF Commit
      <4>2. ASSUME NEW c \in Devices, c # d, snapshots[c] # NoRow
            PROVE  LET r == requests[snapshots[c].key] IN
                   r.device = c /\ snapshots[c].gen = r.gen /\ r.gen <= generation
        BY <1>0, <4>2 DEF DataInv, RowsAreUploads
      <4>3. generation <= generation
        BY <1>0 DEF TypeOK, Generations
      <4>4. /\ requests[row.key].device = d /\ row.gen = requests[row.key].gen
            /\ requests[row.key].gen <= generation
        BY <3>2, <4>3
      <4>. HIDE DEF row, d
      <4>. QED BY <3>3, <4>1, <4>2, <4>4 DEF RowsAreUploads
    <3>13. StagedAreOld'
      <4>1. \A g \in RotationIds : k \notin rotations[g].staged
        BY <1>0, <3>1 DEF DataInv, StagedAreOld
      <4>2. ASSUME NEW g \in RotationIds, NEW j \in rotations[g].staged
            PROVE  /\ ledger'[j].state \notin {"absent", "pending"}
                   /\ \A c \in Devices : snapshots'[c].key = j => snapshots'[c].gen < g
        <5>1. j \in Keys /\ j # k
          BY <1>0, <4>1, <4>2 DEF TypeOK, Rotation
        <5>. QED BY <1>0, <3>3, <4>2, <5>1 DEF DataInv, StagedAreOld, Forward, Alive
      <4>. QED BY <1>0, <2>4, <4>2 DEF Commit, DataInv, StagedAreOld
    <3>. QED BY <3>8, <3>9, <3>10, <3>11, <3>12, <3>13 DEF DataInv
  <2>5. CASE CommitFails(u) \/ Reread(u) \/ ReadCleaning(u)
    BY <1>2, <2>5 DEF CommitFails, Reread, ReadCleaning
  <2>6. CASE Release(u)
    BY <1>0, <1>2, <2>6 DEF Release, Abandonable, TypeOK
  <2>7. CASE StartCleanup(u)
    <3>1. ASSUME NEW g \in RotationIds, Cleanable(g, requests[k])
          PROVE  rotations[g].phase # "none" /\ (head # NoHead => snapshots[head.snap].gen >= g)
      BY <1>0, <3>1 DEF Cleanable, TypeOK, Generations, RotationIds, Request, NoRequest
    <3>. QED BY <1>0, <1>3, <2>7, <3>1 DEF StartCleanup, TypeOK, Rotation
  <2>8. CASE CleanMetadata(u)
    <3>1. PICK g \in RotationIds :
            /\ g \in run[u].queue
            /\ ledger' = FencedLedger(g, run[u].stamp)
            /\ snapshots' = [d \in Devices |-> IF d \in Doomed(g) THEN NoRow ELSE snapshots[d]]
      BY <2>8 DEF CleanMetadata, NextRotation
    <3>2. rotations[g].staged # {} => rotations[g].phase \in {"cleaning", "cleaned"}
      BY <1>0, <2>0, <3>1
      DEF CleaningIsQueued, DataInv, StagedAreOld, TypeOK, Rotation, RotationPhases
    <3>3. ASSUME NEW d \in Devices, snapshots[d].key \in rotations[g].staged
          PROVE  d \in Doomed(g)
      <4>1. snapshots[d].gen < g
        BY <1>0, <3>3 DEF DataInv, StagedAreOld
      <4>2. snapshots[d].gen \in Nat /\ g \in Nat
        BY <1>0 DEF TypeOK, Row, NoRow, Generations, RotationIds
      <4>3. ~(head # NoHead /\ head.snap = d)
        BY <1>0, <3>2, <3>3, <4>1, <4>2 DEF DataInv, CleanupAfterReencryption
      <4>. QED BY <3>3, <4>1, <4>2, <4>3 DEF Doomed
    <3>4. \A j \in Keys : j \notin rotations[g].staged => ledger'[j] = ledger[j]
      BY <3>1 DEF FencedLedger
    <3>5. SnapshotsStored'
      BY <1>0, <2>8, <3>1, <3>3, <3>4 DEF CleanMetadata, DataInv, SnapshotsStored, TypeOK, Row
    <3>6. head # NoHead => head.snap \notin Doomed(g)
      BY DEF Doomed
    <3>7. HeadHasRow'
      BY <1>0, <2>8, <3>1, <3>6 DEF CleanMetadata, DataInv, HeadHasRow
    <3>8. CleanupAfterReencryption'
      BY <1>0, <2>8, <3>1, <3>6 DEF CleanMetadata, DataInv, CleanupAfterReencryption, HeadHasRow
    <3>9. RowsAreUploads' /\ StagedRetained'
      BY <1>0, <2>8, <3>1 DEF CleanMetadata, DataInv, RowsAreUploads, StagedRetained
    <3>10. StagedAreOld'
      <4>1. ASSUME NEW h \in RotationIds, NEW j \in rotations[h].staged
            PROVE  /\ ledger'[j].state \notin {"absent", "pending"}
                   /\ \A c \in Devices : snapshots'[c].key = j => snapshots'[c].gen < h
        <5>1. j \in Keys
          BY <1>0, <4>1 DEF TypeOK, Rotation
        <5>. QED BY <1>0, <3>1, <4>1, <5>1, ConstantsAssumption
                 DEF DataInv, StagedAreOld, Forward, Alive, NoRow
      <4>. QED BY <1>0, <2>8, <4>1 DEF CleanMetadata, DataInv, StagedAreOld
    <3>. QED BY <3>5, <3>7, <3>8, <3>9, <3>10 DEF DataInv
  <2>9. CASE MarkClean(u)
    <3>1. \A g \in RotationIds :
            \/ rotations'[g] = rotations[g]
            \/ /\ rotations[g].phase = "cleaning"
               /\ rotations'[g] = [rotations[g] EXCEPT !.phase = "cleaned"]
      BY <1>0, <2>9 DEF MarkClean, TypeOK
    <3>. QED BY <1>0, <1>3, <2>9, <3>1
             DEF MarkClean, TypeOK, Rotation, DataInv, CleanupAfterReencryption
  <2>. QED BY <1>8, <2>1, <2>2, <2>3, <2>4, <2>5, <2>6, <2>7, <2>8, <2>9 DEF Upload
<1>9. ASSUME NEW r \in Resetters, StartReset(r) \/ ResetAborts(r) PROVE DataInv'
  BY <1>2, <1>9 DEF StartReset, ResetAborts
<1>10. ASSUME NEW r \in Resetters, Reset(r) PROVE DataInv'
  <2>1. head' = NoHead /\ \A d \in Devices : snapshots'[d] = NoRow
    BY <1>10 DEF Reset
  <2>2. \A g \in RotationIds :
          /\ rotations'[g].staged = rotations[g].staged
          /\ rotations'[g].phase # "completed"
          /\ rotations'[g].phase # "none" <=> rotations[g].phase # "none"
    BY <1>0, <1>10 DEF Reset, TypeOK, Rotation
  <2>3. SnapshotsStored' /\ HeadHasRow' /\ RowsAreUploads' /\ CleanupAfterReencryption'
    BY <2>1 DEF SnapshotsStored, HeadHasRow, RowsAreUploads, CleanupAfterReencryption
  <2>4. StagedRetained'
    BY <2>2 DEF StagedRetained
  <2>5. StagedAreOld'
    <3>1. ASSUME NEW g \in RotationIds, NEW j \in rotations[g].staged
          PROVE  j \in Keys /\ j # NoKey /\ ledger'[j].state \notin {"absent", "pending"}
      BY <1>0, <3>1, ConstantsAssumption DEF TypeOK, Rotation, DataInv, StagedAreOld, Forward, Alive
    <3>. QED BY <1>0, <1>10, <2>1, <2>2, <3>1 DEF Reset, DataInv, StagedAreOld, NoRow
  <2>. QED BY <2>3, <2>4, <2>5 DEF DataInv
<1>16. ASSUME NEW x \in Deleters, DeleteAccount(x) PROVE DataInv'
  <2>1. head' = NoHead /\ \A d \in Devices : snapshots'[d] = NoRow
    BY <1>16 DEF DeleteAccount
  <2>2. \A g \in RotationIds : rotations'[g] = [phase |-> "none", staged |-> {}]
    BY <1>16 DEF DeleteAccount
  <2>3. SnapshotsStored' /\ HeadHasRow' /\ RowsAreUploads' /\ CleanupAfterReencryption'
    BY <2>1 DEF SnapshotsStored, HeadHasRow, RowsAreUploads, CleanupAfterReencryption
  <2>4. StagedRetained' /\ StagedAreOld'
    BY <2>2 DEF StagedRetained, StagedAreOld
  <2>. QED BY <2>3, <2>4 DEF DataInv
<1>11. ASSUME NEW w \in Downloaders, Download(w) PROVE DataInv'
  BY <1>2, <1>11 DEF Download, StartDownload, GetObject, Recheck
<1>12. ASSUME NEW c \in Crons, Cron(c) PROVE DataInv'
  <2>1. CASE ListObjects(c) \/ InventoryFails(c)
    BY <1>2, <2>1 DEF ListObjects, InventoryFails
  <2>2. CASE RecordInventory(c)
    BY <1>2, <2>2 DEF RecordInventory, Unaccounted
  <2>3. CASE FinalizeRotations(c)
    <3>1. \A g \in RotationIds :
            \/ rotations'[g] = rotations[g]
            \/ /\ rotations[g].phase = "cleaning"
               /\ rotations'[g] = [rotations[g] EXCEPT !.phase = "cleaned"]
      BY <2>3 DEF FinalizeRotations
    <3>. QED BY <1>0, <1>3, <2>3, <3>1
             DEF FinalizeRotations, TypeOK, Rotation, DataInv, CleanupAfterReencryption
  <2>. QED BY <1>12, <2>1, <2>2, <2>3 DEF Cron
<1>13. ASSUME NEW a \in Actors, ledger' = Forgotten(a), UNCHANGED <<tables, objects, requests>>
       PROVE  DataInv'
  BY <1>0, <1>2, <1>13 DEF Forgotten, TypeOK, LedgerRow
<1>14. ASSUME NEW a \in Actors, Collection(a) PROVE DataInv'
  <2>1. CASE CollectClaim(a)
    BY <1>2, <2>1 DEF CollectClaim, Collected, Collectable
  <2>2. CASE DeleteObject(a)
    <3>1. PICK k \in run[a].todo : objects' = objects \ {k}
      BY <2>2 DEF DeleteObject
    <3>2. ledger[k].state \in Dead /\ ~Retained(k)
      BY <2>2, RunInvParts, Parts DEF Held
    <3>3. SnapshotsStored'
      BY <1>0, <2>2, <3>1, <3>2 DEF DeleteObject, tables, DataInv, SnapshotsStored, Dead
    <3>4. StagedRetained'
      BY <1>0, <2>2, <3>1, <3>2 DEF DeleteObject, tables, DataInv, StagedRetained, Retained
    <3>. QED BY <1>0, <2>2, <3>3, <3>4
             DEF DeleteObject, tables, DataInv, CleanupAfterReencryption, HeadHasRow,
                 RowsAreUploads, StagedAreOld
  <2>3. CASE MarkDeleted(a)
    BY <1>0, <1>2, <2>3 DEF MarkDeleted, StillMine, TypeOK
  <2>4. CASE CollectFails(a)
    BY <1>13, <2>4 DEF CollectFails
  <2>. QED BY <1>14, <2>1, <2>2, <2>3, <2>4 DEF Collection
<1>15. ASSUME NEW a \in Actors, Dies(a) PROVE DataInv'
  BY <1>13, <1>15 DEF Dies
<1>. QED BY <1>4, <1>5, <1>6, <1>7, <1>8, <1>9, <1>10, <1>11, <1>12, <1>14, <1>15,
         <1>16
         DEF Next, Environment

-----------------------------------------------------------------------------
(* The theorems *)

\* No step of any interleaving breaks the invariant.
THEOREM StoreInvStep == StoreInv /\ [Next]_vars => StoreInv'
<1>. SUFFICES ASSUME StoreInv, [Next]_vars PROVE StoreInv'
  OBVIOUS
<1>1. TypeOK' /\ DataInv' /\ RunInv'
  BY TypeStep, DataStep, RunStep
<1>. QED BY <1>1 DEF StoreInv, DataInv, RunInv

\* The invariant of the store, and with it every safety property it is made
\* of, holds in every reachable state.
THEOREM StoreInvariant == Spec => []StoreInv
BY InitStoreInv, StoreInvStep, PTL DEF Spec

\* Every snapshot row names an object that the bucket holds and the ledger
\* calls referenced, whatever uploads, collectors, resets and rotations do.
THEOREM SnapshotsAreStored == Spec => []SnapshotsStored
BY StoreInvariant, PTL DEF StoreInv

\* The objects that a rotation staged stay until its cleanup is opened.
THEOREM StagedObjectsAreRetained == Spec => []StagedRetained
BY StoreInvariant, PTL DEF StoreInv

\* A cleanup is open only while no head is encrypted under an older key.
THEOREM CleanupFollowsReencryption == Spec => []CleanupAfterReencryption
BY StoreInvariant, PTL DEF StoreInv

\* A head always joins with the row of its device.
THEOREM HeadsAreReadable == Spec => []HeadReadable
<1>1. StoreInv => HeadReadable
  BY DEF StoreInv, HeadHasRow, HeadReadable
<1>. QED BY <1>1, StoreInvariant, PTL

\* Only an approved device moves the head, under the current vault key.
THEOREM HeadsAreCurrent == Spec => CommitsAreCurrent
<1>. DEFINE Current == Trusted(head'.snap) /\ requests[head'.key].gen = generation
<1>1. StoreInv /\ [Next]_vars => (head' # head /\ head' # NoHead => Current)
  <2>. SUFFICES ASSUME StoreInv, [Next]_vars, head' # head, head' # NoHead PROVE Current
    OBVIOUS
  <2>1. ASSUME NEW u \in Uploaders, Commit(u) PROVE Current
    BY <2>1 DEF Commit, CommitReady, KeyCurrent, RefOf
  <2>2. ASSUME NEW u \in Uploaders, Upload(u), ~Commit(u) PROVE UNCHANGED head
    BY <2>2
    DEF Upload, Receive, Claim, PutObject, PutFails, CommitFails, Release, Reread,
        StartCleanup, ReadCleaning, CleanMetadata, MarkClean, tables
  <2>3. ASSUME NEW r \in Resetters, StartReset(r) \/ Reset(r) \/ ResetAborts(r)
        PROVE  UNCHANGED head \/ head' = NoHead
    BY <2>3 DEF StartReset, Reset, ResetAborts, tables
  <2>8. ASSUME NEW x \in Deleters, DeleteAccount(x) PROVE head' = NoHead
    BY <2>8 DEF DeleteAccount
  <2>4. ASSUME NEW w \in Downloaders, Download(w) PROVE UNCHANGED head
    BY <2>4 DEF Download, StartDownload, GetObject, Recheck, tables
  <2>5. ASSUME NEW c \in Crons, Cron(c) PROVE UNCHANGED head
    BY <2>5 DEF Cron, ListObjects, InventoryFails, RecordInventory, FinalizeRotations, tables
  <2>6. ASSUME NEW a \in Actors, Collection(a) \/ Dies(a) PROVE UNCHANGED head
    BY <2>6
    DEF Collection, CollectClaim, DeleteObject, MarkDeleted, CollectFails, Dies, tables
  <2>7. CASE UNCHANGED vars \/ Environment
    BY <2>7 DEF vars, tables, Environment, Tick, Approve, Rotate, Dismiss, Build
  <2>. QED BY <2>1, <2>2, <2>3, <2>4, <2>5, <2>6, <2>7, <2>8 DEF Next
<1>. QED BY <1>1, StoreInvariant, PTL DEF Spec, CommitsAreCurrent

\* A second delivery of a reset never erases a head that was written after the first.
THEOREM ReplaysWipeNothing == Spec => ReplayWipesNothing
<1>1. StoreInv /\ [Next]_vars => (ResetDone /\ head # NoHead => head' # NoHead \/ AccountGone')
  <2>. SUFFICES ASSUME StoreInv, [Next]_vars, ResetDone, head # NoHead
               PROVE  head' # NoHead \/ AccountGone'
    OBVIOUS
  <2>1. ASSUME NEW u \in Uploaders, Commit(u) PROVE head' # NoHead
    <3>1. run[u].key \in Keys
      BY <2>1, Parts DEF Commit, RunInv, PutBeforeCommit
    <3>2. head'.key # NoHead.key
      BY <2>1, <3>1, ConstantsAssumption DEF Commit, RefOf, NoHead
    <3>. QED BY <3>2
  <2>2. ASSUME NEW u \in Uploaders, Upload(u), ~Commit(u) PROVE UNCHANGED head
    BY <2>2
    DEF Upload, Receive, Claim, PutObject, PutFails, CommitFails, Release, Reread,
        StartCleanup, ReadCleaning, CleanMetadata, MarkClean, tables
  <2>3. ASSUME NEW r \in Resetters, StartReset(r) \/ Reset(r) \/ ResetAborts(r)
        PROVE  UNCHANGED head
    BY <2>3 DEF StartReset, Reset, ResetAborts, tables
  <2>8. ASSUME NEW x \in Deleters, DeleteAccount(x) PROVE AccountGone'
    BY <2>8 DEF DeleteAccount, AccountGone
  <2>4. ASSUME NEW w \in Downloaders, Download(w) PROVE UNCHANGED head
    BY <2>4 DEF Download, StartDownload, GetObject, Recheck, tables
  <2>5. ASSUME NEW c \in Crons, Cron(c) PROVE UNCHANGED head
    BY <2>5 DEF Cron, ListObjects, InventoryFails, RecordInventory, FinalizeRotations, tables
  <2>6. ASSUME NEW a \in Actors, Collection(a) \/ Dies(a) PROVE UNCHANGED head
    BY <2>6
    DEF Collection, CollectClaim, DeleteObject, MarkDeleted, CollectFails, Dies, tables
  <2>7. CASE UNCHANGED vars \/ Environment
    BY <2>7 DEF vars, tables, Environment, Tick, Approve, Rotate, Dismiss, Build
  <2>. QED BY <2>1, <2>2, <2>3, <2>4, <2>5, <2>6, <2>7, <2>8 DEF Next
<1>. QED BY <1>1, StoreInvariant, PTL DEF Spec, ReplayWipesNothing

\* No upload, cleanup or reset that was under way when the account was deleted brings
\* a head or a snapshot row back.
THEOREM DeletedAccountsStayEmpty == Spec => []GoneForGood
<1>1. Init => GoneForGood
  BY DEF Init, GoneForGood
<1>2. StoreInv /\ GoneForGood /\ [Next]_vars => GoneForGood'
  <2>. SUFFICES ASSUME StoreInv, GoneForGood, [Next]_vars, AccountGone' PROVE GoneForGood'
    BY DEF GoneForGood
  <2>0. TypeOK /\ PutBeforeCommit
    BY DEF StoreInv
  <2>1. ASSUME AccountGone,
               UNCHANGED head \/ head' = NoHead,
               \A d \in Devices : snapshots'[d] = snapshots[d] \/ snapshots'[d] = NoRow
        PROVE  GoneForGood'
    BY <2>1 DEF GoneForGood
  <2>2. ASSUME NEW x \in Deleters, DeleteAccount(x) PROVE GoneForGood'
    BY <2>2 DEF DeleteAccount, GoneForGood
  <2>3. ASSUME NEW d \in Devices, Approve(d) \/ Rotate(d) \/ Dismiss(d) PROVE FALSE
    BY <2>0, <2>3 DEF Dismiss, Trust!Dismiss, Approve, Trust!Approve, Rotate, Trust!Rotate, AccountGone, TypeOK
  <2>4. CASE UNCHANGED vars \/ Environment
    BY <2>1, <2>3, <2>4 DEF vars, tables, Environment, Tick, Build, AccountGone
  <2>5. ASSUME NEW u \in Uploaders, Commit(u) PROVE FALSE
    <3>1. requests[run[u].key].device \in Devices
      BY <2>0, <2>5 DEF Commit, PutBeforeCommit, TypeOK, Request
    <3>. QED BY <2>5, <3>1 DEF Commit, CommitReady, Trusted, AccountGone
  <2>6. ASSUME NEW u \in Uploaders, Upload(u) PROVE GoneForGood'
    <3>1. CASE CleanMetadata(u)
      BY <2>1, <3>1 DEF CleanMetadata, AccountGone
    <3>. QED BY <2>1, <2>5, <2>6, <3>1
             DEF Upload, Receive, Claim, PutObject, PutFails, CommitFails, Release, Reread,
                 StartCleanup, ReadCleaning, MarkClean, tables, AccountGone
  <2>7. ASSUME NEW r \in Resetters, StartReset(r) \/ Reset(r) \/ ResetAborts(r)
        PROVE  GoneForGood'
    BY <2>1, <2>7 DEF StartReset, Reset, ResetAborts, tables, AccountGone
  <2>8. ASSUME NEW w \in Downloaders, Download(w) PROVE GoneForGood'
    BY <2>1, <2>8 DEF Download, StartDownload, GetObject, Recheck, tables, AccountGone
  <2>9. ASSUME NEW c \in Crons, Cron(c) PROVE GoneForGood'
    BY <2>1, <2>9
    DEF Cron, ListObjects, InventoryFails, RecordInventory, FinalizeRotations, tables,
        AccountGone
  <2>10. ASSUME NEW a \in Actors, Collection(a) \/ Dies(a) PROVE GoneForGood'
    BY <2>1, <2>10
    DEF Collection, CollectClaim, DeleteObject, MarkDeleted, CollectFails, Dies, tables,
        AccountGone
  <2>. QED BY <2>2, <2>4, <2>6, <2>7, <2>8, <2>9, <2>10 DEF Next
<1>. QED BY <1>1, <1>2, StoreInvariant, PTL DEF Spec

-----------------------------------------------------------------------------
(* What single steps do to the head and to the invocations *)

\* The head is moved by commits alone, and erased by a reset or a deletion.
LEMMA HeadStep ==
  ASSUME [Next]_vars
  PROVE  UNCHANGED head \/ head' = NoHead \/ \E u \in Uploaders : Commit(u)
<1>1. ASSUME NEW u \in Uploaders, Upload(u), ~Commit(u) PROVE UNCHANGED head
  BY <1>1
  DEF Upload, Receive, Claim, PutObject, PutFails, CommitFails, Release, Reread,
      StartCleanup, ReadCleaning, CleanMetadata, MarkClean, tables
<1>2. ASSUME NEW r \in Resetters, StartReset(r) \/ Reset(r) \/ ResetAborts(r)
      PROVE  UNCHANGED head \/ head' = NoHead
  BY <1>2 DEF StartReset, Reset, ResetAborts, tables
<1>3. ASSUME NEW x \in Deleters, DeleteAccount(x) PROVE head' = NoHead
  BY <1>3 DEF DeleteAccount
<1>4. ASSUME NEW w \in Downloaders, Download(w) PROVE UNCHANGED head
  BY <1>4 DEF Download, StartDownload, GetObject, Recheck, tables
<1>5. ASSUME NEW c \in Crons, Cron(c) PROVE UNCHANGED head
  BY <1>5 DEF Cron, ListObjects, InventoryFails, RecordInventory, FinalizeRotations, tables
<1>6. ASSUME NEW a \in Actors, Collection(a) \/ Dies(a) PROVE UNCHANGED head
  BY <1>6
  DEF Collection, CollectClaim, DeleteObject, MarkDeleted, CollectFails, Dies, tables
<1>7. CASE UNCHANGED vars \/ Environment
  BY <1>7 DEF vars, tables, Environment, Tick, Approve, Rotate, Dismiss, Build
<1>. QED BY <1>1, <1>2, <1>3, <1>4, <1>5, <1>6, <1>7 DEF Next

\* A step is of one invocation at most, or of none.
StepOf(a) ==
  \/ a \in Uploaders /\ Upload(a)
  \/ a \in Resetters /\ (StartReset(a) \/ Reset(a) \/ ResetAborts(a))
  \/ a \in Deleters /\ DeleteAccount(a)
  \/ a \in Downloaders /\ Download(a)
  \/ a \in Crons /\ Cron(a)
  \/ Collection(a)
  \/ Dies(a)

LEMMA Steps ==
  ASSUME [Next]_vars
  PROVE  UNCHANGED vars \/ Environment \/ \E a \in Actors : StepOf(a)
BY DEF Next, StepOf, Actors, Handlers

\* An invocation changes its own locals only.
LEMMA OwnLocals ==
  ASSUME TypeOK, NEW a \in Actors, StepOf(a)
  PROVE  \E v : run' = [run EXCEPT ![a] = v]
<1>1. \/ UNCHANGED run
      \/ \E v : run' = [run EXCEPT ![a] = v]
  <2>1. CASE a \in Uploaders /\ Upload(a)
    BY <2>1
    DEF Upload, Receive, Claim, PutObject, PutFails, Commit, CommitFails, Release, Reread,
        StartCleanup, ReadCleaning, CleanMetadata, MarkClean, Succeed, Goto, Answer
  <2>2. CASE a \in Resetters /\ (StartReset(a) \/ Reset(a) \/ ResetAborts(a))
    BY <2>2 DEF StartReset, Reset, ResetAborts, Goto
  <2>3. CASE a \in Deleters /\ DeleteAccount(a)
    BY <2>3 DEF DeleteAccount
  <2>4. CASE a \in Downloaders /\ Download(a)
    BY <2>4 DEF Download, StartDownload, GetObject, Recheck, Goto, Answer
  <2>5. CASE a \in Crons /\ Cron(a)
    BY <2>5 DEF Cron, ListObjects, InventoryFails, RecordInventory, FinalizeRotations, Answer
  <2>6. CASE Collection(a) \/ Dies(a)
    BY <2>6
    DEF Collection, CollectClaim, DeleteObject, MarkDeleted, CollectFails, Dies, Return, Answer
  <2>. QED BY <2>1, <2>2, <2>3, <2>4, <2>5, <2>6 DEF StepOf
<1>2. UNCHANGED run => run' = [run EXCEPT ![a] = run[a]]
  BY DEF TypeOK
<1>. QED BY <1>1, <1>2

\* A row that a head names is there, and its object with it.
LEMMA HeadIsStored ==
  ASSUME StoreInv, head # NoHead
  PROVE  /\ head.snap \in Devices /\ head.key \in Keys
         /\ snapshots[head.snap] # NoRow
         /\ snapshots[head.snap].key = head.key
         /\ head.key \in objects
         /\ ledger[head.key].state = "referenced"
<1>1. /\ head.snap \in Devices /\ head.key \in Keys
      /\ snapshots[head.snap].key = head.key
  BY DEF StoreInv, HeadHasRow
<1>2. snapshots[head.snap] # NoRow
  BY <1>1, ConstantsAssumption DEF NoRow
<1>. QED BY <1>1, <1>2 DEF StoreInv, SnapshotsStored

\* What a commit has to have: a row that is still pending.
LEMMA CommitHasKey ==
  ASSUME StoreInv, NEW u \in Uploaders, Commit(u)
  PROVE  /\ run[u].key \in Keys
         /\ requests[run[u].key] \in Request
         /\ ledger[run[u].key].state = "pending"
         /\ head'.key = run[u].key
BY DEF StoreInv, TypeOK, PutBeforeCommit, Commit, CommitReady, HoldsLease, RefOf

-----------------------------------------------------------------------------
(* Downloads *)

\* A download that has its key: the row of that key has left "pending" for good,
\* and so, once the head has moved on, it does not come back.
DownloadInv ==
  \A w \in Downloaders :
    /\ run[w].pc \in {"get", "recheck"} =>
         run[w].key \in Keys /\ ledger[run[w].key].state \notin Alive
    /\ run[w].pc = "recheck" => head.key # run[w].key
    /\ run[w].pc # "lost"

LEMMA DownloadStep == StoreInv /\ DownloadInv /\ [Next]_vars => DownloadInv'
<1>. SUFFICES ASSUME StoreInv, DownloadInv, [Next]_vars, NEW w \in Downloaders
              PROVE  /\ run'[w].pc \in {"get", "recheck"} =>
                          run'[w].key \in Keys /\ ledger'[run'[w].key].state \notin Alive
                     /\ run'[w].pc = "recheck" => head'.key # run'[w].key
                     /\ run'[w].pc # "lost"
  BY DEF DownloadInv
<1>. USE DEF Alive
<1>0. TypeOK /\ w \in Actors
  BY DEF StoreInv, Actors, Handlers
<1>1. /\ run[w].pc \in {"get", "recheck"} =>
           run[w].key \in Keys /\ ledger[run[w].key].state \notin Alive
      /\ run[w].pc = "recheck" => head.key # run[w].key
      /\ run[w].pc # "lost"
  BY DEF DownloadInv
<1>2. CASE UNCHANGED run[w]
  <2>1. run[w].pc \in {"get", "recheck"} => ledger'[run[w].key].state \notin Alive
    BY <1>1, ForwardStep DEF Forward
  <2>2. run[w].pc = "recheck" => head'.key # run[w].key
    <3>1. CASE \E u \in Uploaders : Commit(u)
      BY <1>1, <3>1, CommitHasKey
    <3>2. CASE UNCHANGED head \/ head' = NoHead
      BY <1>1, <3>2, ConstantsAssumption DEF NoHead
    <3>. QED BY <3>1, <3>2, HeadStep
  <2>. QED BY <1>1, <1>2, <2>1, <2>2
<1>3. ASSUME NEW k \in Keys, StartDownload(w, k)
      PROVE  run'[w].pc = "get" /\ run'[w].key = k /\ ledger'[k].state = "referenced"
  <2>1. head # NoHead /\ head.key = k
    BY <1>3, ConstantsAssumption DEF StartDownload, HeadIs, RefOf, NoHead
  <2>. QED BY <1>0, <1>3, <2>1, HeadIsStored DEF StartDownload, Idle, TypeOK
<1>4. CASE GetObject(w)
  <2>1. CASE run[w].key \in objects
    BY <1>0, <1>4, <2>1 DEF GetObject, Answer, Idle, TypeOK
  <2>2. CASE run[w].key \notin objects
    <3>1. head.key # run[w].key
      BY <1>1, <1>4, <2>2, HeadIsStored, ConstantsAssumption DEF GetObject, NoHead
    <3>2. run'[w].pc = "recheck" /\ run'[w].key = run[w].key
      BY <1>0, <1>4, <2>2 DEF GetObject, Goto, TypeOK, Invocation
    <3>. QED BY <1>1, <1>4, <3>1, <3>2 DEF GetObject, tables
  <2>. QED BY <2>1, <2>2
<1>5. CASE Recheck(w)
  <2>1. ~HeadIs(run[w].key)
    BY <1>1, <1>5 DEF Recheck, HeadIs, RefOf
  <2>. QED BY <1>0, <1>5, <2>1 DEF Recheck, Answer, Idle, TypeOK
<1>6. CASE Collection(w) \/ Dies(w)
  <2>1. run[w] \in Invocation
    BY <1>0 DEF TypeOK
  <2>2. ASSUME NEW l \in Resumes, Return(w, l) PROVE run'[w].pc \in {"idle"} \cup Resumes
    BY <1>0, <2>1, <2>2 DEF Return, Idle, TypeOK, Invocation
  <2>3. run[w].resume \in Resumes /\ "idle" \in Resumes
    BY <2>1 DEF Invocation, Resumes
  <2>4. CASE \E l \in Resumes : Return(w, l)
    BY <2>2, <2>4 DEF Resumes
  <2>5. CASE CollectClaim(w) \/ DeleteObject(w) \/ MarkDeleted(w)
    <3>1. run'[w].pc \in {"delete", "mark"} \/ Return(w, run[w].resume)
      <4>1. \A v : run' = [run EXCEPT ![w] = v] => run'[w] = v
        BY <1>0 DEF TypeOK
      <4>2. CASE CollectClaim(w)
        BY <2>1, <4>1, <4>2 DEF CollectClaim, Invocation
      <4>3. CASE DeleteObject(w)
        BY <2>1, <4>1, <4>3 DEF DeleteObject, Invocation
      <4>4. CASE MarkDeleted(w)
        BY <2>1, <4>1, <4>4 DEF MarkDeleted, Invocation
      <4>. QED BY <2>5, <4>2, <4>3, <4>4
    <3>. QED BY <2>3, <2>4, <3>1
  <2>6. CASE CollectFails(w)
    BY <2>3, <2>4, <2>6 DEF CollectFails
  <2>7. CASE Dies(w)
    BY <1>0, <2>7 DEF Dies, Answer, Idle, TypeOK
  <2>. QED BY <1>6, <2>5, <2>6, <2>7 DEF Collection
<1>7. ASSUME NEW a \in Actors, StepOf(a), a # w PROVE UNCHANGED run[w]
  BY <1>0, <1>7, OwnLocals DEF TypeOK
<1>8. CASE UNCHANGED vars \/ Environment
  BY <1>8, <1>2 DEF vars, Environment, Tick, Approve, Rotate, Dismiss, Build
<1>9. CASE StepOf(w)
  BY <1>3, <1>4, <1>5, <1>6, <1>9, ActorsAssumption DEF StepOf, Download, Handlers
<1>. QED BY <1>2, <1>7, <1>8, <1>9, Steps

\* A download of the current head never misses its object.
THEOREM DownloadsFindTheirObject == Spec => []NeverLost
<1>1. Init => DownloadInv
  BY DEF Init, DownloadInv, Idle, Actors, Handlers
<1>2. DownloadInv => NeverLost
  BY DEF DownloadInv, NeverLost
<1>. QED BY <1>1, <1>2, DownloadStep, StoreInvariant, PTL DEF Spec

-----------------------------------------------------------------------------
(* Puts *)

\* Times read at the start of an invocation are not in the future; a put whose row is
\* its own has the lease its claim gave, or the time of that lease is over.
PutInv ==
  /\ \A a \in Actors : run[a].stamp <= now
  /\ \A u \in Uploaders :
       run[u].pc = "put" /\ ledger[run[u].key].token = u =>
         \/ now >= run[u].stamp + Lease
         \/ /\ ledger[run[u].key].state \in {"pending", "ready"}
            /\ ledger[run[u].key].due = run[u].stamp + Lease

\* A row that keeps its token, and its lease while that runs.
LeaseKept(k) ==
  /\ ledger'[k].token = ledger[k].token
  /\ ledger[k].state \in {"pending", "ready"} =>
       \/ ledger[k].due <= now
       \/ ledger'[k].state \in {"pending", "ready"} /\ ledger'[k].due = ledger[k].due

\* Only the invocation that holds a row, or claims it, does otherwise.
LEMMA LeasesAreKept ==
  ASSUME StoreInv, PutInv, [Next]_vars, NEW k \in Keys
  PROVE  \/ LeaseKept(k)
         \/ \E u \in Uploaders :
              /\ run[u].key = k /\ run'[u].pc # "put"
              /\ ledger[k].token = u /\ ledger'[k].token = u
         \/ \E u \in Uploaders :
              /\ run[u].key = k /\ Claim(u)
              /\ ledger'[k].state = "pending" /\ ledger'[k].token = u
              /\ ledger'[k].due = run[u].stamp + Lease
<1>0. /\ ledger \in [Keys -> LedgerRow] /\ run \in [Actors -> Invocation] /\ now \in Nat
      /\ Uploaders \subseteq Actors
  BY DEF StoreInv, TypeOK, Actors, Handlers
<1>1. ledger[k] \in LedgerRow
  BY <1>0
<1>2. ASSUME UNCHANGED ledger PROVE LeaseKept(k)
  BY <1>2 DEF LeaseKept
<1>3. ASSUME NEW u \in Uploaders, Upload(u)
      PROVE  \/ LeaseKept(k)
             \/ /\ run[u].key = k /\ run'[u].pc # "put"
                /\ ledger[k].token = u /\ ledger'[k].token = u
             \/ /\ run[u].key = k /\ Claim(u)
                /\ ledger'[k].state = "pending" /\ ledger'[k].token = u
                /\ ledger'[k].due = run[u].stamp + Lease
  <2>1. CASE Claim(u)
    BY <1>0, <1>2, <2>1 DEF Claim, LeaseKept
  <2>2. CASE Commit(u)
    <3>1. run'[u].pc # "put"
      BY <1>0, <2>2 DEF Commit, Goto, Invocation
    <3>2. CASE k = run[u].key
      BY <1>1, <2>2, <3>1, <3>2 DEF Commit, CommitReady, HoldsLease, CommitLedger, LedgerRow
    <3>3. CASE k # run[u].key
      BY <1>1, <2>2, <3>3 DEF Commit, CommitLedger, LedgerRow, LeaseKept
    <3>. QED BY <3>2, <3>3
  <2>3. CASE Release(u)
    <3>1. run'[u].pc # "put"
      BY <1>0, <2>3 DEF Release, Goto, Invocation
    <3>2. CASE k = run[u].key /\ Abandonable(u)
      BY <1>0, <1>1, <2>3, <3>1, <3>2 DEF Release, Abandonable, LedgerRow
    <3>3. CASE ~(k = run[u].key /\ Abandonable(u))
      BY <1>0, <2>3, <3>3 DEF Release, LeaseKept
    <3>. QED BY <3>2, <3>3
  <2>4. CASE CleanMetadata(u)
    <3>1. PICK g \in RotationIds : ledger' = FencedLedger(g, run[u].stamp)
      BY <2>4 DEF CleanMetadata
    <3>. QED BY <1>1, <3>1 DEF FencedLedger, LeaseKept, LedgerRow
  <2>. QED BY <1>2, <1>3, <2>1, <2>2, <2>3, <2>4
           DEF Upload, Receive, PutObject, PutFails, CommitFails, Reread, StartCleanup,
               ReadCleaning, MarkClean, tables
<1>4. ASSUME NEW t, ledger' = ResetLedger(t) PROVE LeaseKept(k)
  BY <1>1, <1>4 DEF ResetLedger, LeaseKept, LedgerRow
<1>5. ASSUME NEW a \in Actors, ledger' = Forgotten(a) PROVE LeaseKept(k)
  BY <1>1, <1>5 DEF Forgotten, LeaseKept, LedgerRow
<1>6. ASSUME NEW a \in Actors, Collection(a) PROVE LeaseKept(k)
  <2>0. run[a].stamp \in Nat /\ run[a].stamp <= now
    BY <1>0 DEF Invocation, PutInv
  <2>1. CASE CollectClaim(a)
    <3>1. CASE k \in Collected(a)
      <4>1. ledger'[k] = [ledger[k] EXCEPT !.state = "deleting", !.due = RetryAt(a),
                                           !.collector = a]
        BY <2>1, <3>1 DEF CollectClaim
      <4>2. ledger[k].due <= now /\ ledger'[k].token = ledger[k].token
        BY <1>0, <1>1, <2>0, <3>1, <4>1 DEF Collected, Collectable, LedgerRow
      <4>. QED BY <4>2 DEF LeaseKept
    <3>2. CASE k \notin Collected(a)
      BY <2>1, <3>2 DEF CollectClaim, LeaseKept
    <3>. QED BY <3>1, <3>2
  <2>2. CASE MarkDeleted(a)
    BY <1>0, <1>1, <2>2 DEF MarkDeleted, StillMine, LeaseKept, LedgerRow
  <2>. QED BY <1>2, <1>5, <1>6, <2>1, <2>2 DEF Collection, DeleteObject, CollectFails, tables
<1>7. ASSUME NEW c \in Crons, Cron(c) PROVE LeaseKept(k)
  <2>1. CASE RecordInventory(c)
    BY <1>1, <2>1 DEF RecordInventory, Unaccounted, LeaseKept, LedgerRow
  <2>. QED BY <1>2, <1>7, <2>1 DEF Cron, ListObjects, InventoryFails, FinalizeRotations, tables
<1>8. ASSUME NEW a \in Actors, StepOf(a), ~(a \in Uploaders /\ Upload(a)) PROVE LeaseKept(k)
  BY <1>2, <1>4, <1>5, <1>6, <1>7, <1>8
  DEF StepOf, StartReset, Reset, ResetAborts, DeleteAccount, Download, StartDownload,
      GetObject, Recheck, Dies, tables
<1>9. CASE UNCHANGED vars \/ Environment
  BY <1>2, <1>9 DEF vars, Environment, Tick, Approve, Rotate, Dismiss, Build
<1>. QED BY <1>3, <1>8, <1>9, Steps

\* Nothing but the clock moves the time.
LEMMA ClockStep ==
  ASSUME [Next]_vars
  PROVE  now' = now \/ now' = now + 1
<1>1. ASSUME NEW a \in Actors, StepOf(a) PROVE now' = now
  <2>1. CASE a \in Uploaders /\ Upload(a)
    BY <2>1
    DEF Upload, Receive, Claim, PutObject, PutFails, Commit, CommitFails, Release, Reread,
        StartCleanup, ReadCleaning, CleanMetadata, MarkClean
  <2>2. CASE ~(a \in Uploaders /\ Upload(a))
    BY <1>1, <2>2
    DEF StepOf, StartReset, Reset, ResetAborts, DeleteAccount, Download, StartDownload,
        GetObject, Recheck, Cron, ListObjects, InventoryFails, RecordInventory,
        FinalizeRotations, Collection, CollectClaim, DeleteObject, MarkDeleted,
        CollectFails, Dies
  <2>. QED BY <2>1, <2>2
<1>2. CASE UNCHANGED vars \/ Environment
  BY <1>2 DEF vars, Environment, Tick, Approve, Rotate, Dismiss, Build
<1>. QED BY <1>1, <1>2, Steps

\* Invocations begin at the present time, or, a deletion, in the past.
LEMMA StampStep ==
  ASSUME StoreInv, PutInv, [Next]_vars
  PROVE  \A a \in Actors : run'[a].stamp <= now'
<1>. SUFFICES ASSUME NEW a \in Actors PROVE run'[a].stamp <= now'
  OBVIOUS
<1>0. /\ run \in [Actors -> Invocation] /\ run[a] \in Invocation /\ now \in Nat
      /\ run[a].stamp \in Nat /\ run[a].stamp <= now
  BY DEF StoreInv, TypeOK, Invocation, PutInv
<1>1. now' \in Nat /\ now <= now'
  BY <1>0, ClockStep
<1>2. CASE UNCHANGED run[a]
  BY <1>0, <1>1, <1>2
<1>3. ASSUME NEW v, run' = [run EXCEPT ![a] = v] PROVE run'[a] = v
  BY <1>0, <1>3
<1>4. ASSUME NEW l, Goto(a, l) \/ Return(a, l) PROVE run'[a].stamp <= now'
  <2>1. CASE Goto(a, l)
    <3>1. run'[a] = [run[a] EXCEPT !.pc = l]
      BY <1>3, <2>1 DEF Goto
    <3>. QED BY <1>0, <1>1, <3>1 DEF Invocation
  <2>2. CASE Return(a, l)
    <3>1. CASE l = "idle"
      BY <1>0, <1>1, <1>3, <2>2, <3>1 DEF Return, Idle
    <3>2. CASE l # "idle"
      <4>1. run'[a] = [run[a] EXCEPT !.pc = l, !.todo = {}, !.at = NoKey]
        BY <1>0, <2>2, <3>2 DEF Return
      <4>2. [run[a] EXCEPT !.pc = l, !.todo = {}, !.at = NoKey].stamp = run[a].stamp
        BY <1>0 DEF Invocation
      <4>. QED BY <1>0, <1>1, <4>1, <4>2
    <3>. QED BY <3>1, <3>2
  <2>. QED BY <1>4, <2>1, <2>2
<1>5. CASE Answer(a)
  BY <1>0, <1>1, <1>3, <1>5 DEF Answer, Idle
<1>6. CASE a \in Uploaders /\ Upload(a)
  <2>1. ASSUME NEW k \in Keys, Receive(a, k) PROVE run'[a].stamp <= now'
    BY <1>0, <1>1, <1>2, <1>3, <2>1 DEF Receive, Idle
  <2>2. CASE CommitFails(a) \/ CleanMetadata(a) \/ ReadCleaning(a) \/ MarkClean(a)
    BY <1>0, <1>1, <1>3, <1>4, <1>5, <2>2
    DEF CommitFails, CleanMetadata, ReadCleaning, MarkClean, Succeed, Invocation
  <2>. QED BY <1>4, <1>5, <1>6, <2>1, <2>2
           DEF Upload, Claim, PutObject, PutFails, Commit, Release, Reread, StartCleanup
<1>7. CASE a \in Resetters /\ (StartReset(a) \/ Reset(a) \/ ResetAborts(a))
  BY <1>0, <1>1, <1>3, <1>4, <1>7 DEF StartReset, Reset, ResetAborts, Idle, Invocation
<1>8. CASE a \in Deleters /\ DeleteAccount(a)
  BY <1>0, <1>1, <1>3, <1>8 DEF DeleteAccount, Idle
<1>9. CASE a \in Downloaders /\ Download(a)
  <2>1. ASSUME NEW k \in Keys, StartDownload(a, k) PROVE run'[a].stamp <= now'
    BY <1>0, <1>1, <1>3, <2>1 DEF StartDownload, Idle
  <2>. QED BY <1>4, <1>5, <1>9, <2>1 DEF Download, GetObject, Recheck
<1>10. CASE a \in Crons /\ Cron(a)
  BY <1>0, <1>1, <1>3, <1>4, <1>5, <1>10
  DEF Cron, ListObjects, InventoryFails, RecordInventory, FinalizeRotations, Idle, Invocation
<1>11. CASE Collection(a) \/ Dies(a)
  <2>0. ASSUME NEW pc, NEW todo, NEW at,
               run' = [run EXCEPT ![a] = [@ EXCEPT !.pc = pc, !.todo = todo, !.at = at]]
        PROVE  run'[a].stamp <= now'
    <3>1. run'[a] = [run[a] EXCEPT !.pc = pc, !.todo = todo, !.at = at]
      BY <1>0, <2>0
    <3>2. [run[a] EXCEPT !.pc = pc, !.todo = todo, !.at = at].stamp = run[a].stamp
      BY <1>0 DEF Invocation
    <3>. QED BY <1>0, <1>1, <3>1, <3>2
  <2>1. CASE CollectClaim(a)
    <3>1. CASE run' = [run EXCEPT ![a] = [@ EXCEPT !.pc = "delete", !.todo = Collected(a)]]
      BY <1>0, <1>1, <3>1 DEF Invocation
    <3>. QED BY <1>4, <2>1, <3>1 DEF CollectClaim
  <2>2. CASE DeleteObject(a) \/ MarkDeleted(a) \/ CollectFails(a)
    <3>1. ASSUME NEW k, run' = [run EXCEPT ![a] = [@ EXCEPT !.pc = "mark", !.at = k]]
          PROVE  run'[a].stamp <= now'
      BY <1>0, <1>1, <3>1 DEF Invocation
    <3>2. CASE DeleteObject(a)
      BY <3>1, <3>2 DEF DeleteObject
    <3>3. CASE MarkDeleted(a)
      <4>1. CASE run' = [run EXCEPT ![a] = [@ EXCEPT !.pc = "delete", !.todo = run[a].todo \ {run[a].at}, !.at = NoKey]]
        BY <2>0, <4>1
      <4>. QED BY <1>4, <3>3, <4>1 DEF MarkDeleted
    <3>4. CASE CollectFails(a)
      BY <1>4, <3>4 DEF CollectFails
    <3>. QED BY <2>2, <3>2, <3>3, <3>4
  <2>3. CASE Dies(a)
    BY <1>5, <2>3 DEF Dies
  <2>. QED BY <1>11, <2>1, <2>2, <2>3 DEF Collection
<1>12. ASSUME NEW b \in Actors, StepOf(b), b # a PROVE UNCHANGED run[a]
  <2>1. TypeOK
    BY DEF StoreInv
  <2>. QED BY <1>0, <1>12, <2>1, OwnLocals
<1>13. CASE UNCHANGED vars \/ Environment
  BY <1>2, <1>13 DEF vars, Environment, Tick, Approve, Rotate, Dismiss, Build
<1>14. CASE StepOf(a)
  BY <1>6, <1>7, <1>8, <1>9, <1>10, <1>11, <1>14 DEF StepOf
<1>. QED BY <1>2, <1>12, <1>13, <1>14, Steps

LEMMA PutStep == StoreInv /\ PutInv /\ [Next]_vars => PutInv'
<1>. SUFFICES ASSUME StoreInv, PutInv, [Next]_vars, NEW u \in Uploaders,
                     run'[u].pc = "put", ledger'[run'[u].key].token = u
              PROVE  \/ now' >= run'[u].stamp + Lease
                     \/ /\ ledger'[run'[u].key].state \in {"pending", "ready"}
                        /\ ledger'[run'[u].key].due = run'[u].stamp + Lease
  BY StampStep DEF PutInv
<1>0. /\ run \in [Actors -> Invocation] /\ u \in Actors /\ run[u] \in Invocation
      /\ ledger \in [Keys -> LedgerRow] /\ now \in Nat /\ TypeOK
  BY DEF StoreInv, TypeOK, Actors, Handlers
<1>1. ASSUME NEW v, run' = [run EXCEPT ![u] = v] PROVE run'[u] = v
  BY <1>0, <1>1
<1>2. CASE UNCHANGED run[u]
  <2>. DEFINE k == run[u].key
  <2>1. k \in Keys /\ run[u].pc = "put"
    BY <1>2 DEF StoreInv, PutBeforeCommit
  <2>2. CASE LeaseKept(k)
    <3>1. \/ now >= run[u].stamp + Lease
          \/ ledger[k].state \in {"pending", "ready"} /\ ledger[k].due = run[u].stamp + Lease
      BY <1>2, <2>1, <2>2 DEF PutInv, LeaseKept
    <3>2. now' = now \/ now' = now + 1
      BY ClockStep
    <3>3. run[u].stamp \in Nat
      BY <1>0 DEF Invocation
    <3>. QED BY <1>0, <1>2, <2>2, <3>1, <3>2, <3>3, ConstantsAssumption DEF LeaseKept
  <2>. QED BY <1>2, <2>1, <2>2, LeasesAreKept
<1>3. CASE Claim(u)
  <2>1. run'[u].pc = "put" /\ run'[u].stamp = run[u].stamp /\ run'[u].key = run[u].key
    BY <1>0, <1>3 DEF Claim, Goto, Answer, Idle, Invocation
  <2>2. run[u].key \in Keys
    BY <1>3 DEF StoreInv, PutBeforeCommit, Claim
  <2>. QED BY <1>0, <1>3, <2>1, <2>2 DEF Claim, Answer, Idle
<1>4. ASSUME StepOf(u), ~Claim(u) PROVE UNCHANGED run[u]
  <2>1. ASSUME NEW l, Goto(u, l), l # "put" PROVE FALSE
    <3>1. run'[u] = [run[u] EXCEPT !.pc = l]
      BY <1>1, <2>1 DEF Goto
    <3>. QED BY <1>0, <2>1, <3>1 DEF Invocation
  <2>2. CASE Answer(u)
    BY <1>1, <2>2 DEF Answer, Idle
  <2>3. ASSUME NEW l \in Resumes, Return(u, l) PROVE FALSE
    BY <1>0, <2>3 DEF Return, Idle, Invocation, Resumes
  <2>4. run[u].resume \in Resumes /\ "idle" \in Resumes
    BY <1>0 DEF Invocation, Resumes
  <2>5. CASE Upload(u)
    <3>1. ASSUME NEW k \in Keys, Receive(u, k) PROVE UNCHANGED run[u]
      <4>1. \/ UNCHANGED run
            \/ run' = [run EXCEPT ![u] = [Idle EXCEPT !.pc = "cleanup", !.key = k, !.stamp = now]]
            \/ run' = [run EXCEPT ![u] = [Idle EXCEPT !.pc = "claim", !.key = k, !.stamp = now]]
        BY <3>1 DEF Receive
      <4>. QED BY <1>1, <4>1 DEF Idle
    <3>2. CASE CommitFails(u) \/ CleanMetadata(u) \/ ReadCleaning(u) \/ MarkClean(u)
      BY <1>0, <1>1, <2>1, <2>2, <3>2
      DEF CommitFails, CleanMetadata, ReadCleaning, MarkClean, Succeed, Invocation
    <3>3. CASE Claim(u)
      BY <1>4, <3>3
    <3>4. CASE PutObject(u) \/ PutFails(u) \/ Commit(u) \/ Release(u) \/ Reread(u)
               \/ StartCleanup(u)
      BY <2>1, <2>2, <3>4 DEF PutObject, PutFails, Commit, Release, Reread, StartCleanup
    <3>. QED BY <2>5, <3>1, <3>2, <3>3, <3>4 DEF Upload
  <2>6. CASE CollectClaim(u) \/ DeleteObject(u) \/ MarkDeleted(u)
    <3>1. CASE CollectClaim(u)
      BY <1>0, <1>1, <2>3, <2>4, <3>1 DEF CollectClaim, Invocation
    <3>2. CASE DeleteObject(u)
      BY <1>0, <1>1, <3>2 DEF DeleteObject, Invocation
    <3>3. CASE MarkDeleted(u)
      BY <1>0, <1>1, <2>3, <2>4, <3>3 DEF MarkDeleted, Invocation
    <3>. QED BY <2>6, <3>1, <3>2, <3>3
  <2>7. CASE CollectFails(u)
    BY <2>3, <2>4, <2>7 DEF CollectFails
  <2>8. CASE Dies(u)
    BY <2>2, <2>8 DEF Dies
  <2>. QED BY <1>4, <2>5, <2>6, <2>7, <2>8, ActorsAssumption DEF StepOf, Collection, Handlers
<1>5. ASSUME NEW a \in Actors, StepOf(a), a # u PROVE UNCHANGED run[u]
  BY <1>0, <1>5, OwnLocals
<1>6. CASE UNCHANGED vars \/ Environment
  BY <1>2, <1>6 DEF vars, Environment, Tick, Approve, Rotate, Dismiss, Build
<1>. QED BY <1>2, <1>3, <1>4, <1>5, <1>6, Steps

\* A put whose lease runs lands on a row that the collector still has ahead of it.
THEOREM PutsStayTracked == Spec => PutsAreTracked
<1>1. Init => PutInv
  BY ConstantsAssumption DEF Init, PutInv, Idle, NoLedgerRow, Actors, Handlers
<1>. DEFINE Tracked ==
       \A u \in Uploaders :
         /\ run[u].pc = "put" /\ run[u].key \in objects'
         /\ ledger[run[u].key].token = u
         /\ now < run[u].stamp + Lease
         => ledger[run[u].key].state \in {"pending", "ready"}
<1>2. StoreInv /\ PutInv => Tracked
  <2>. SUFFICES ASSUME StoreInv, PutInv, NEW u \in Uploaders,
                       run[u].pc = "put", ledger[run[u].key].token = u,
                       now < run[u].stamp + Lease
                PROVE  ledger[run[u].key].state \in {"pending", "ready"}
    OBVIOUS
  <2>1. now \in Nat /\ run[u].stamp \in Nat
    BY DEF StoreInv, TypeOK, Invocation, Actors, Handlers
  <2>. QED BY <2>1, ConstantsAssumption DEF PutInv
<1>. QED BY <1>1, <1>2, PutStep, StoreInvariant, PTL DEF Spec, PutsAreTracked

-----------------------------------------------------------------------------
(* The register *)

\* The invocation is past the point where its upload is known to be, or have been, the
\* head.
Confirmed(u) ==
  run[u].pc \in {"cleanup", "queue", "metadata", "clean"} \/ run[u].resume = "clean"

\* What has been the head is spent: its row has left "pending", so it is not committed
\* again.  A row bears the clock of its upload, and an upload is only accepted that has
\* been the head.
RegisterInv ==
  /\ head # NoHead => head.key \in installed
  /\ \A k \in installed : requests[k] # NoRequest /\ ledger[k].state \notin Alive
  /\ \A d \in Devices : snapshots[d] # NoRow =>
       snapshots[d].clock = requests[snapshots[d].key].clock
  /\ \A u \in Uploaders : Confirmed(u) => run[u].key \in installed

\* The tables that the register is made of change in a commit only.
LEMMA InstalledStep ==
  ASSUME StoreInv, [Next]_vars
  PROVE  \/ /\ UNCHANGED installed
            /\ \A d \in Devices : snapshots'[d] = snapshots[d] \/ snapshots'[d] = NoRow
         \/ \E u \in Uploaders : Commit(u)
<1>. DEFINE Kept == /\ UNCHANGED installed
                    /\ \A d \in Devices : snapshots'[d] = snapshots[d] \/ snapshots'[d] = NoRow
<1>1. ASSUME NEW u \in Uploaders, Upload(u), ~Commit(u) PROVE Kept
  <2>1. CASE CleanMetadata(u)
    BY <2>1 DEF CleanMetadata, history
  <2>2. CASE ~CleanMetadata(u)
    BY <1>1, <2>2
    DEF Upload, Receive, Claim, PutObject, PutFails, CommitFails, Release, Reread,
        StartCleanup, ReadCleaning, MarkClean, tables, history
  <2>. QED BY <2>1, <2>2
<1>2. ASSUME NEW a \in Actors, StepOf(a), ~(a \in Uploaders /\ Upload(a)) PROVE Kept
  BY <1>2
  DEF StepOf, StartReset, Reset, ResetAborts, DeleteAccount, Download, StartDownload,
      GetObject, Recheck, Cron, ListObjects, InventoryFails, RecordInventory,
      FinalizeRotations, Collection, CollectClaim, DeleteObject, MarkDeleted,
      CollectFails, Dies, tables, history
<1>3. CASE UNCHANGED vars \/ Environment
  BY <1>3 DEF vars, Environment, Tick, Approve, Rotate, Dismiss, Build, tables, history
<1>. QED BY <1>1, <1>2, <1>3, Steps

\* An upload comes to be confirmed by its commit, or because it is the head.
LEMMA ConfirmedStep ==
  ASSUME StoreInv, [Next]_vars, NEW u \in Uploaders, Confirmed(u)'
  PROVE  \/ run'[u].key = run[u].key /\ Confirmed(u)
         \/ run'[u].key = run[u].key /\ Commit(u)
         \/ run'[u].key \in Keys /\ HeadIs(run'[u].key)
<1>0. /\ run \in [Actors -> Invocation] /\ u \in Actors /\ run[u] \in Invocation /\ TypeOK
  BY DEF StoreInv, TypeOK, Actors, Handlers
<1>1. ASSUME NEW v, run' = [run EXCEPT ![u] = v] PROVE run'[u] = v
  BY <1>0, <1>1
<1>2. ASSUME UNCHANGED run[u] PROVE run'[u].key = run[u].key /\ Confirmed(u)
  BY <1>2 DEF Confirmed
<1>3. ASSUME NEW l, Goto(u, l) PROVE run'[u].key = run[u].key /\ run'[u].pc = l
                                     /\ run'[u].resume = run[u].resume
  <2>1. run'[u] = [run[u] EXCEPT !.pc = l]
    BY <1>1, <1>3 DEF Goto
  <2>. QED BY <1>0, <2>1 DEF Invocation
<1>4. ~Answer(u)
  BY <1>1 DEF Answer, Idle, Confirmed
<1>5. ASSUME Return(u, run[u].resume) PROVE run'[u].key = run[u].key /\ Confirmed(u)
  <2>1. run[u].resume # "idle"
    BY <1>4, <1>5 DEF Return, Answer
  <2>2. run'[u] = [run[u] EXCEPT !.pc = run[u].resume, !.todo = {}, !.at = NoKey]
    BY <1>1, <1>5, <2>1 DEF Return
  <2>3. run'[u].key = run[u].key /\ run'[u].pc = run[u].resume /\ run'[u].resume = run[u].resume
    BY <1>0, <2>2 DEF Invocation
  <2>. QED BY <1>0, <2>3 DEF Confirmed, Invocation, Resumes
<1>6. ASSUME NEW k \in Keys, Receive(u, k)
      PROVE  \/ run'[u].key = run[u].key /\ Confirmed(u)
             \/ run'[u].key \in Keys /\ HeadIs(run'[u].key)
  <2>1. CASE UNCHANGED run
    BY <1>2, <2>1
  <2>2. CASE HeadIs(k) /\ run' = [run EXCEPT ![u] =
                            [Idle EXCEPT !.pc = "cleanup", !.key = k, !.stamp = now]]
    <3>1. run'[u].key = k
      BY <1>1, <2>2 DEF Idle
    <3>. QED BY <2>2, <3>1
  <2>3. CASE run' = [run EXCEPT ![u] = [Idle EXCEPT !.pc = "claim", !.key = k, !.stamp = now]]
    <3>1. run'[u].pc = "claim" /\ run'[u].resume = "idle"
      BY <1>1, <2>3 DEF Idle
    <3>. QED BY <3>1 DEF Confirmed
  <2>. QED BY <1>6, <2>1, <2>2, <2>3 DEF Receive
<1>7. CASE Upload(u)
  <2>1. CASE Claim(u) \/ PutObject(u) \/ PutFails(u) \/ Release(u)
    BY <1>3, <1>4, <2>1 DEF Claim, PutObject, PutFails, Release, Confirmed
  <2>2. CASE Commit(u)
    BY <1>3, <2>2 DEF Commit
  <2>3. CASE CommitFails(u)
    <3>1. CASE run' = [run EXCEPT ![u] = [@ EXCEPT !.pc = "release", !.resume = "reread"]]
      BY <1>0, <1>1, <3>1 DEF Confirmed, Invocation
    <3>. QED BY <1>3, <2>3, <3>1 DEF CommitFails, Confirmed
  <2>4. CASE Reread(u)
    BY <1>0, <1>3, <1>4, <2>4 DEF Reread, StoreInv, PutBeforeCommit
  <2>5. CASE StartCleanup(u)
    BY <1>3, <2>5 DEF StartCleanup, Confirmed
  <2>6. CASE ReadCleaning(u) \/ CleanMetadata(u) \/ MarkClean(u)
    <3>1. Confirmed(u)
      BY <2>6 DEF ReadCleaning, CleanMetadata, MarkClean, Confirmed
    <3>2. CASE ReadCleaning(u)
      BY <1>0, <1>1, <1>4, <3>1, <3>2 DEF ReadCleaning, Succeed, Invocation
    <3>3. CASE CleanMetadata(u)
      BY <1>0, <1>1, <3>1, <3>3 DEF CleanMetadata, Invocation
    <3>4. CASE MarkClean(u)
      BY <1>0, <1>1, <1>4, <3>1, <3>4 DEF MarkClean, Succeed, Invocation
    <3>. QED BY <2>6, <3>2, <3>3, <3>4
  <2>. QED BY <1>6, <1>7, <2>1, <2>2, <2>3, <2>4, <2>5, <2>6 DEF Upload
<1>8. CASE Collection(u)
  <2>1. ASSUME run'[u].key = run[u].key, run'[u].resume = run[u].resume,
               run'[u].pc \in {"delete", "mark"}
        PROVE  run'[u].key = run[u].key /\ Confirmed(u)
    BY <2>1 DEF Confirmed
  <2>2. CASE CollectClaim(u)
    BY <1>0, <1>1, <1>5, <2>1, <2>2 DEF CollectClaim, Invocation
  <2>3. CASE DeleteObject(u)
    BY <1>0, <1>1, <2>1, <2>3 DEF DeleteObject, Invocation
  <2>4. CASE MarkDeleted(u)
    BY ZenonT(30), <1>0, <1>1, <1>5, <2>1, <2>4 DEF MarkDeleted, Invocation
  <2>5. CASE CollectFails(u)
    <3>1. run[u].resume # "clean"
      BY <1>4, <2>5 DEF CollectFails, Return, Answer
    <3>. QED BY <1>5, <2>5, <3>1 DEF CollectFails
  <2>. QED BY <1>8, <2>2, <2>3, <2>4, <2>5 DEF Collection
<1>9. CASE StepOf(u)
  BY <1>4, <1>7, <1>8, <1>9, ActorsAssumption DEF StepOf, Handlers, Dies
<1>10. ASSUME NEW a \in Actors, StepOf(a), a # u PROVE UNCHANGED run[u]
  BY <1>0, <1>10, OwnLocals
<1>11. CASE UNCHANGED vars \/ Environment
  BY <1>2, <1>11 DEF vars, Environment, Tick, Approve, Rotate, Dismiss, Build
<1>. QED BY <1>2, <1>9, <1>10, <1>11, Steps

LEMMA RegisterStep == StoreInv /\ RegisterInv /\ [Next]_vars => RegisterInv'
<1>. SUFFICES ASSUME StoreInv, RegisterInv, [Next]_vars PROVE RegisterInv'
  OBVIOUS
<1>0. TypeOK /\ Forward
  BY ForwardStep DEF StoreInv
<1>1. ASSUME NEW u \in Uploaders, Commit(u)
      PROVE  /\ run[u].key \in Keys /\ requests[run[u].key] # NoRequest
             /\ installed' = installed \cup {run[u].key}
             /\ head'.key = run[u].key
             /\ ledger'[run[u].key].state = "referenced"
  <2>1. ledger'[run[u].key] = [ledger[run[u].key] EXCEPT !.state = "referenced",
                                                          !.due = run[u].stamp]
    BY <1>1, CommitHasKey DEF Commit, CommitLedger
  <2>2. ledger[run[u].key] \in LedgerRow
    BY <1>0, <1>1, CommitHasKey DEF TypeOK
  <2>3. requests[run[u].key] # NoRequest
    BY <1>1, CommitHasKey, ConstantsAssumption DEF Request, NoRequest
  <2>. QED BY <1>1, <2>1, <2>2, <2>3, CommitHasKey DEF Commit, LedgerRow
<1>2. installed \subseteq installed' /\ installed \subseteq Keys
  BY <1>0, <1>1, InstalledStep DEF TypeOK
<1>3. head' # NoHead => head'.key \in installed'
  BY <1>1, <1>2, HeadStep DEF RegisterInv
<1>4. ASSUME NEW k \in installed' PROVE requests'[k] # NoRequest /\ ledger'[k].state \notin Alive
  <2>1. CASE k \in installed
    BY <1>0, <1>2, <2>1 DEF RegisterInv, Forward
  <2>2. CASE k \notin installed
    <3>1. PICK u \in Uploaders : Commit(u) /\ k = run[u].key
      BY <1>1, <1>4, <2>2, InstalledStep
    <3>. QED BY <1>0, <1>1, <3>1 DEF Forward, Alive
  <2>. QED BY <2>1, <2>2
<1>5. ASSUME NEW d \in Devices, snapshots'[d] # NoRow
      PROVE  snapshots'[d].clock = requests'[snapshots'[d].key].clock
  <2>1. CASE snapshots'[d] = snapshots[d]
    <3>1. requests[snapshots[d].key].device = d
      BY <1>5, <2>1 DEF StoreInv, RowsAreUploads
    <3>2. snapshots[d].key \in Keys /\ requests[snapshots[d].key] # NoRequest
      BY <1>0, <1>5, <2>1, <3>1, ConstantsAssumption DEF TypeOK, Row, NoRequest
    <3>. QED BY <1>0, <1>5, <2>1, <3>2 DEF RegisterInv, Forward
  <2>2. CASE snapshots'[d] # snapshots[d]
    <3>1. PICK u \in Uploaders : Commit(u)
      BY <1>5, <2>2, InstalledStep
    <3>2. snapshots'[d].key = run[u].key /\ snapshots'[d].clock = requests[run[u].key].clock
      BY <1>0, <2>2, <3>1 DEF Commit, TypeOK
    <3>. QED BY <3>1, <3>2 DEF Commit
  <2>. QED BY <2>1, <2>2
<1>6. ASSUME NEW u \in Uploaders, Confirmed(u)' PROVE run'[u].key \in installed'
  <2>1. ASSUME NEW k \in Keys, HeadIs(k) PROVE k \in installed
    BY <2>1, ConstantsAssumption DEF HeadIs, RefOf, NoHead, RegisterInv
  <2>. QED BY <1>1, <1>2, <1>6, <2>1, ConfirmedStep DEF RegisterInv
<1>. QED BY <1>3, <1>4, <1>5, <1>6 DEF RegisterInv

\* The register's action a step stands for.
LEMMA RegisterMaps ==
  ASSUME StoreInv, RegisterInv, [Next]_vars
  PROVE  [Register!Next]_(Register!vars)
<1>. DEFINE made == [k \in Keys |-> [from |-> requests[k].base.key, clock |-> requests[k].clock,
                                     real |-> requests[k] # NoRequest]]
            Same == UNCHANGED <<requests, installed, acknowledged>>
<1>0. TypeOK
  BY DEF StoreInv
<1>1. ASSUME Same, UNCHANGED head \/ head' = NoHead PROVE [Register!Next]_(Register!vars)
  <2>1. CASE UNCHANGED head
    BY <1>1, <2>1 DEF Register!vars
  <2>2. CASE head' = NoHead
    <3>1. Register!Erase
      BY <1>1, <2>2 DEF Register!Erase, NoHead
    <3>. QED BY <3>1 DEF Register!Next
  <2>. QED BY <1>1, <2>1, <2>2
<1>2. ASSUME NEW k \in Keys, k \in installed, acknowledged' = acknowledged \cup {k},
             UNCHANGED <<head, requests, installed>>
      PROVE  [Register!Next]_(Register!vars)
  <2>1. Register!Accept(k)
    BY <1>2 DEF Register!Accept
  <2>. QED BY <2>1 DEF Register!Next
<1>3. ASSUME NEW k \in Keys, HeadIs(k) PROVE k \in installed
  BY <1>3, ConstantsAssumption DEF HeadIs, RefOf, NoHead, RegisterInv
<1>4. ASSUME NEW d \in Devices, NEW k \in Keys, Build(d, k) PROVE [Register!Next]_(Register!vars)
  <2>1. PICK c \in {HeadClock, HeadClock + 1} :
          requests' = [requests EXCEPT ![k] =
            [device |-> d, base |-> head, clock |-> c, gen |-> generation]]
    BY <1>4 DEF Build
  <2>2. c \in Nat
    BY <1>0, <2>1 DEF HeadClock, StoreInv, HeadHasRow, TypeOK, Row, NoRow
  <2>3. requests[k] = NoRequest
    BY <1>4 DEF Build
  <2>4. made[k] = Register!Unmade
    <3>1. (requests[k] # NoRequest) = FALSE
      BY <2>3, Zenon
    <3>2. requests[k].base.key = NoKey /\ requests[k].clock = 0
      BY <2>3 DEF NoRequest, NoHead
    <3>. QED BY <3>1, <3>2, Zenon DEF Register!Unmade
  <2>5. made'[k] = [from |-> head.key, clock |-> c, real |-> TRUE]
    <3>1. requests'[k] = [device |-> d, base |-> head, clock |-> c, gen |-> generation]
      BY <1>0, <2>1 DEF TypeOK
    <3>2. requests'[k] # NoRequest
      BY <3>1, ConstantsAssumption DEF NoRequest
    <3>3. (requests'[k] # NoRequest) = TRUE
      BY <3>2, Zenon
    <3>4. requests'[k].base.key = head.key /\ requests'[k].clock = c
      BY <3>1
    <3>. QED BY <3>3, <3>4, Zenon
  <2>6. head.key \in installed \cup {NoKey}
    BY DEF RegisterInv, NoHead
  <2>7. made'[k] \in Register!Made
    BY <2>2, <2>5, <2>6 DEF Register!Made
  <2>8. \A j \in Keys : j # k => made'[j] = made[j]
    BY <1>0, <2>1 DEF TypeOK
  <2>9. made' = [made EXCEPT ![k] = made'[k]]
    BY <2>8
  <2>10. Register!Make(k)
    BY <1>4, <2>4, <2>7, <2>9 DEF Register!Make, Build, tables, history
  <2>. QED BY <2>10 DEF Register!Next
<1>5. ASSUME NEW u \in Uploaders, Commit(u) PROVE [Register!Next]_(Register!vars)
  <2>. DEFINE k == run[u].key
  <2>1. k \in Keys /\ requests[k] # NoRequest /\ ledger[k].state \in Alive /\ head'.key = k
    BY <1>5, CommitHasKey, ConstantsAssumption DEF Request, NoRequest, Alive
  <2>2. k \notin installed
    BY <2>1 DEF RegisterInv
  <2>3. head.key = made[k].from
    BY <1>5, <2>1 DEF Commit, CommitReady, BaseCurrent
  <2>4. head.key = NoKey \/ made[k].clock > made[head.key].clock
    <3>1. CASE head = NoHead
      BY <3>1 DEF NoHead
    <3>2. CASE head # NoHead
      <4>1. /\ head.snap \in Devices /\ head.key \in Keys /\ snapshots[head.snap] # NoRow
            /\ snapshots[head.snap].key = head.key
        BY <3>2, HeadIsStored
      <4>2. snapshots[head.snap].clock = requests[head.key].clock
        BY <4>1 DEF RegisterInv
      <4>3. requests[k].clock > snapshots[head.snap].clock
        BY <1>5, <3>2 DEF Commit, CommitReady, ClockLater, HeadClock
      <4>. QED BY <2>1, <4>1, <4>2, <4>3
    <3>. QED BY <3>1, <3>2
  <2>5. made[k] # Register!Unmade
    BY <2>1 DEF Register!Unmade
  <2>6. UNCHANGED <<requests, acknowledged>> /\ installed' = installed \cup {k}
    BY <1>5 DEF Commit
  <2>7. Register!Take(k)
    BY <2>1, <2>2, <2>3, <2>4, <2>5, <2>6 DEF Register!Take
  <2>. QED BY <2>1, <2>7 DEF Register!Next
<1>6. ASSUME NEW u \in Uploaders, Upload(u) PROVE [Register!Next]_(Register!vars)
  <2>0. run[u].pc # "idle" => run[u].key \in Keys
    BY DEF StoreInv, PutBeforeCommit
  <2>1. ASSUME NEW k \in Keys, Receive(u, k) PROVE [Register!Next]_(Register!vars)
    BY <1>1, <1>2, <1>3, <2>1 DEF Receive, tables
  <2>2. ASSUME Succeed(u), Confirmed(u), run[u].pc # "idle",
               UNCHANGED <<head, requests, installed>>
        PROVE  [Register!Next]_(Register!vars)
    BY <1>2, <2>0, <2>2 DEF Succeed, RegisterInv
  <2>3. CASE ReadCleaning(u)
    BY <1>1, <2>2, <2>3 DEF ReadCleaning, Confirmed, tables
  <2>4. CASE MarkClean(u)
    BY <1>1, <2>2, <2>4 DEF MarkClean, Confirmed
  <2>5. CASE ~(\E k \in Keys : Receive(u, k)) /\ ~ReadCleaning(u) /\ ~MarkClean(u) /\ ~Commit(u)
    BY <1>1, <1>6, <2>5
    DEF Upload, Claim, PutObject, PutFails, CommitFails, Release, Reread, StartCleanup,
        CleanMetadata, tables, history
  <2>. QED BY <1>5, <2>1, <2>3, <2>4, <2>5
<1>7. ASSUME NEW a \in Actors, StepOf(a), ~(a \in Uploaders /\ Upload(a))
      PROVE  [Register!Next]_(Register!vars)
  <2>1. Same
    BY <1>7
    DEF StepOf, StartReset, Reset, ResetAborts, DeleteAccount, Download, StartDownload,
        GetObject, Recheck, Cron, ListObjects, InventoryFails, RecordInventory,
        FinalizeRotations, Collection, CollectClaim, DeleteObject, MarkDeleted,
        CollectFails, Dies, history
  <2>2. ASSUME NEW u \in Uploaders PROVE ~(a # u /\ Commit(u) /\ Same)
    <3>. SUFFICES ASSUME Commit(u), Same PROVE FALSE
      OBVIOUS
    <3>1. run[u].key \in installed /\ ledger[run[u].key].state \in Alive
      BY CommitHasKey DEF Commit, Alive
    <3>. QED BY <3>1, CommitHasKey DEF RegisterInv
  <2>3. UNCHANGED head \/ head' = NoHead
    BY <1>7, <2>1, <2>2, HeadStep DEF Upload
  <2>. QED BY <1>1, <2>1, <2>3
<1>8. CASE UNCHANGED vars \/ Environment
  BY <1>1, <1>4, <1>8 DEF vars, Environment, Tick, Approve, Rotate, Dismiss, tables, history
<1>. QED BY <1>6, <1>7, <1>8, Steps

\* The snapshot head is a compare-and-swap register.
THEOREM HeadImplementsRegister == Spec => HeadIsRegister
<1>1. Init => RegisterInv
  BY DEF Init, RegisterInv, Confirmed, Idle, Actors, Handlers
<1>2. Init => Register!Init
  <2>. SUFFICES ASSUME Init, NEW k \in Keys
                PROVE  [from |-> requests[k].base.key, clock |-> requests[k].clock,
                        real |-> requests[k] # NoRequest] = Register!Unmade
    BY DEF Init, Register!Init, NoHead
  <2>1. (requests[k] # NoRequest) = FALSE
    <3>1. requests[k] = NoRequest
      BY DEF Init
    <3>. QED BY <3>1, Zenon
  <2>2. requests[k].base.key = NoKey /\ requests[k].clock = 0
    BY DEF Init, NoRequest, NoHead
  <2>. QED BY <2>1, <2>2, Zenon DEF Register!Unmade
<1>. QED BY <1>1, <1>2, RegisterStep, RegisterMaps, StoreInvariant, PTL
         DEF Spec, HeadIsRegister, Register!Spec
=============================================================================
