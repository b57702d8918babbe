------------------------------ MODULE SyncShell ------------------------------
(***************************************************************************)
(* Cloud Sync as the window's shell runs it: sign-in and sign-out, the      *)
(* uploads and the merges of what comes back, over profiles that share one  *)
(* account and one set of records.                                          *)
(*                                                                         *)
(* The shell's thread takes one step for a click, for a timer and for each  *)
(* tick that drains the inbox; whatever touches the network runs in a       *)
(* background thread that answers by a message.  The shell's generation is  *)
(* only ever compared with the present one, so a thread and a message carry *)
(* "current" instead: that they are of it, or, of a sign-out, that the      *)
(* phase of its profile is theirs.                                          *)
(*                                                                         *)
(* Records are only added here: what a merge decides on one record, the     *)
(* device list, private profiles (never signed in) and threads that cannot  *)
(* be spawned are left out.  MaxInbox bounds the messages not yet drained,  *)
(* MaxRevision the snapshots committed, and the number of Threads those     *)
(* that run.                                                                *)
(***************************************************************************)
EXTENDS Naturals, FiniteSets, Sequences

CONSTANTS
  Profiles,
  Tokens,       \* bearer tokens, one per session of the account
  Records,      \* the changes there are to synchronise
  Silent,       \* ... those this machine makes without an upload being scheduled for them
  Others,       \* ... those that other devices of the account make
  Threads,
  Troubles,     \* what may fail: the credential "store", or a "snapshot" that is not accepted
  RetryLimit,   \* CAS_RETRY_LIMIT
  MaxInbox, MaxRevision,
  None

ASSUME ConstantsAssumption ==
  /\ None \notin Profiles \cup Tokens \cup Records \cup Threads
  /\ Silent \subseteq Records /\ Others \subseteq Records
  /\ Troubles \subseteq {"store", "snapshot"}
  /\ RetryLimit \in Nat \ {0} /\ MaxInbox \in Nat \ {0} /\ MaxRevision \in Nat

VARIABLES
  shell,     \* what ElyShell keeps
  records,   \* BrowserCore: the records of this machine
  thread,    \* the background threads
  inbox,     \* sync_inbox_rx
  store,     \* BearerTokenStore, per profile
  retiring,  \* tokens that threads of their own are to sign out
  issued,    \* the tokens the account's service has given out
  live,      \* ... and those whose session has not ended
  head       \* the account's snapshot, at the service

local == <<shell, records, thread, inbox, store, retiring>>
service == <<issued, live, head>>
vars == <<shell, records, thread, inbox, store, retiring, issued, live, head>>

-----------------------------------------------------------------------------
Connections == {"SignedOut", "SignedIn", "AwaitingDeviceApproval", "SyncReady", "SyncError",
                "CredentialUnavailable", "SigningOut", "SignOutError"}
Phases == {"Idle", "SendingCode", "AwaitingOtp", "Verifying", "Error"}

\* PendingMergeUpload; its profile is always the active one.
Merge == [base : Nat, conflicts : 0..RetryLimit]

Shell ==
  [profile : Profiles,                  \* active_profile_id, sync_profile_id
   connection : Connections,            \* SyncConnectionState
   scheduled : BOOLEAN,                 \* sync_upload_scheduled
   inFlight : BOOLEAN,                  \* sync_upload_in_flight
   pending : BOOLEAN,                   \* sync_upload_pending
   merge : Merge \cup {None},           \* sync_upload_pending_merge
   retry : BOOLEAN,                     \* sync_retry_at is set
   phase : Phases,                      \* auth_flow_phase
   barrier : BOOLEAN,                   \* auth_flow_barrier is held
   signOut : [Profiles -> {None, "SigningOut", "Error"}]]   \* sign_out_phases

Jobs == {"upload", "devices", "code", "verify", "signOut"}
Thread == [job : Jobs, at : {"start", "status", "send", "call", "drain", "revoke", "clear", "released"},
           profile : Profiles, current : BOOLEAN,
           old : BOOLEAN,   \* history: the user has turned to something else since
           token : Tokens \cup {None},
           bytes : SUBSET Records, merge : Merge \cup {None},
           update : {"", "SignOutSucceeded", "SignOutFailed"}]
NoThread == [job |-> None]

AccountHead == [records : SUBSET Records, revision : Nat]

ASSUME NullAssumption == None \notin Connections \cup Jobs /\ None \notin Thread /\ None \notin Merge

\* A thread, as it is spawned.
Spawn(job, p) == [job |-> job, at |-> "start", profile |-> p, current |-> TRUE, old |-> FALSE,
                  token |-> None, bytes |-> {}, merge |-> None, update |-> ""]

\* SyncStateUpdate
Updates == {"AuthenticationExpired", "CredentialUnavailable", "AwaitingDeviceApproval",
            "RemoteSnapshot", "SyncReady", "SyncBusy", "SyncError", "AuthOtpSent", "AuthVerified",
            "AuthError", "SignOutSucceeded", "SignOutFailed"}

\* SyncStateMessage
Mail == [update : Updates, job : Jobs, profile : Profiles, current : BOOLEAN, old : BOOLEAN,
         token : Tokens \cup {None}, records : SUBSET Records, merge : Merge \cup {None}]

\* A message, with what only some updates carry.
Message(w, update) == [update |-> update, job |-> w.job, profile |-> w.profile, current |-> w.current,
                       old |-> w.old, token |-> None, records |-> {}, merge |-> None]

Work(job) == {i \in Threads : thread[i].job = job}
\* The system's credential store may refuse at any time.
StoreFails == "store" \in Troubles

Free == {i \in Threads : thread[i] = NoThread}

\* Threads that hold an AuthenticatedOperationLease.
Leased == Work("upload") \cup Work("devices")

\* The barriers of sign-outs that drain (draining_barrier).
Draining == {i \in Work("signOut") : thread[i].at # "released"}

\* The window opens: profiles may be signed in from the last time, and the active one
\* then starts to synchronise.
Init ==
  \E p \in Profiles, kept \in [Profiles -> Tokens \cup {None}], i \in Threads :
    /\ \A q, r \in Profiles : q # r => kept[q] = None \/ kept[q] # kept[r]
    /\ shell = [profile |-> p, connection |-> IF kept[p] = None THEN "SignedOut" ELSE "SignedIn",
                scheduled |-> FALSE, inFlight |-> kept[p] # None, pending |-> FALSE, merge |-> None,
                retry |-> FALSE, phase |-> "Idle", barrier |-> FALSE,
                signOut |-> [q \in Profiles |-> None]]
    /\ thread = [j \in Threads |-> IF j = i /\ kept[p] # None THEN Spawn("upload", p) ELSE NoThread]
    /\ store = kept
    /\ issued = {kept[q] : q \in Profiles} \ {None} /\ live = issued
    /\ records = {} /\ inbox = <<>> /\ retiring = {}
    /\ head = [records |-> {}, revision |-> 0]

-----------------------------------------------------------------------------
(* What the shell's steps are made of.  They work on a state of the shell   *)
(* with four more parts: "records", "store", "retiring" and "spawned", the   *)
(* thread started, and a fifth, "moved": the generation has advanced.        *)

Now == [shell |-> shell, records |-> records, store |-> store, retiring |-> retiring,
        spawned |-> None, moved |-> FALSE]

\* cloud_sync_upload_enabled
Enabled(s) == s.shell.connection \in {"SignedIn", "AwaitingDeviceApproval", "SyncReady", "SyncError"}

\* reset_sync_work_state
Reset(s) == [s EXCEPT !.shell.scheduled = FALSE, !.shell.inFlight = FALSE, !.shell.retry = FALSE,
                      !.shell.pending = FALSE, !.shell.merge = None]

\* Mutant of Invalidate: the generation stays.
InvalidateNothing(s) == [Reset(s) EXCEPT !.shell.barrier = FALSE]

\* invalidate_sync_work
Invalidate(s) == [Reset(s) EXCEPT !.shell.barrier = FALSE, !.moved = TRUE]

\* queue_cloud_sync_upload keeps the merge of the later head, and of the more conflicts.
Queue(s, merge) ==
  LET held == s.shell.merge
      above(m) == m.base > held.base \/ (m.base = held.base /\ m.conflicts > held.conflicts)
      later == merge # None /\ (held = None \/ above(merge)) IN
  [s EXCEPT !.shell.pending = TRUE, !.shell.merge = IF later THEN merge ELSE held]

\* clear_pending_cloud_sync_upload
ClearPending(s) == [s EXCEPT !.shell.pending = FALSE, !.shell.merge = None]

\* try_acquire
TryAcquire(s) == ~s.shell.barrier /\ Draining = {}

\* trigger_cloud_sync_upload_with_merge
Trigger(s, merge) ==
  LET t == [s EXCEPT !.shell.scheduled = FALSE] IN
  IF ~Enabled(s) THEN ClearPending(t)
  ELSE IF s.shell.inFlight THEN Queue(t, merge)
  ELSE IF ~TryAcquire(s) THEN t
  ELSE [t EXCEPT !.shell.inFlight = TRUE,
                 !.spawned = [Spawn("upload", s.shell.profile) EXCEPT
                                !.bytes = s.records, !.merge = merge]]

\* trigger_pending_cloud_sync_upload
TriggerPending(s) == IF s.shell.pending THEN Trigger(ClearPending(s), s.shell.merge) ELSE s

\* Mutant of Schedule: a change while an upload runs is taken to be in it.
ScheduleOnce(s) == IF Enabled(s) /\ ~s.shell.inFlight THEN [s EXCEPT !.shell.scheduled = TRUE] ELSE s

\* schedule_cloud_sync_upload
Schedule(s) ==
  IF ~Enabled(s) THEN s
  ELSE IF s.shell.inFlight THEN Queue(s, None)
  ELSE [s EXCEPT !.shell.scheduled = TRUE]

\* probe_initial_sync_state, after the profile's store was read, or could not be.
Probe(s, unavailable) ==
  LET p == s.shell.profile IN
  [s EXCEPT !.shell.connection =
    IF s.shell.signOut[p] = "SigningOut" THEN "SigningOut"
    ELSE IF s.shell.signOut[p] = "Error" THEN "SignOutError"
    ELSE IF unavailable THEN "CredentialUnavailable"
    ELSE IF s.store[p] # None THEN "SignedIn" ELSE "SignedOut"]

\* A new sign-out takes the phase of its profile over; otherwise work is of a generation.
Overtaken(s, x) ==
  IF x.job = "signOut"
    THEN s.spawned # None /\ s.spawned.job = "signOut" /\ s.spawned.profile = x.profile
    ELSE s.moved

\* The user goes to another profile, signs out or begins to sign in.  A sign-out of before
\* goes on, and its result is waited for.
Turned(s) ==
  s.shell.profile # shell.profile \/ (s.spawned # None /\ s.spawned.job \in {"code", "verify", "signOut"})

Restamped(s, x) ==
  [x EXCEPT !.current = @ /\ ~Overtaken(s, x), !.old = @ \/ (Turned(s) /\ x.job # "signOut")]

\* A step of the shell, with the thread it may start and the inbox it leaves.
Becomes(s, left) ==
  LET old == [i \in Threads |-> IF thread[i] = NoThread THEN NoThread ELSE Restamped(s, thread[i])] IN
  /\ shell' = s.shell /\ records' = s.records /\ store' = s.store /\ retiring' = s.retiring
  /\ inbox' = [n \in DOMAIN left |-> Restamped(s, left[n])]
  /\ IF s.spawned = None THEN thread' = old
     ELSE \E i \in Free : thread' = [old EXCEPT ![i] = s.spawned]
  /\ UNCHANGED service

-----------------------------------------------------------------------------
(* The user, and the timer *)

\* What the user does to tabs, bookmarks, ...: the records change, and an upload is due.
Change(r) ==
  /\ r \notin records \cup Silent
  /\ Becomes(Schedule([Now EXCEPT !.records = @ \cup {r}]), inbox)

\* Site permissions, the archive policy of a space, the sidebar's settings, a note or a part
\* of the history that is removed, tabs archived by command: these are in the snapshot too,
\* but the change waits for an upload that has another reason.
ChangeQuietly(r) ==
  /\ r \in Silent \ records
  /\ Becomes([Now EXCEPT !.records = @ \cup {r}], inbox)

\* The debounce timer of schedule_cloud_sync_upload.
TimerFires ==
  /\ shell.scheduled
  /\ Becomes(Trigger(Now, None), inbox)

\* "Sync now"
SyncNow == Becomes(Trigger(Now, None), inbox)

\* The device page: its list, an approval or a revocation (sync_device_context).
UseDevices ==
  /\ Enabled(Now) /\ TryAcquire(Now)
  /\ \A i \in Work("devices") : ~thread[i].current
  /\ Becomes([Now EXCEPT !.spawned = Spawn("devices", shell.profile)], inbox)

\* select_profile; and selecting a tab of another profile, which the shell notices when
\* it schedules the upload (reconcile_active_sync_profile).
SwitchProfile(p, unavailable) ==
  LET s == Probe([Invalidate(Now) EXCEPT !.shell.profile = p, !.shell.phase = "Idle"], unavailable) IN
  /\ p # shell.profile
  /\ unavailable => StoreFails
  /\ Becomes(IF s.shell.connection = "SignedIn" THEN Schedule(s) ELSE s, inbox)

\* The form that is shown while nobody is signed in.
FormShown == shell.connection \in {"SignedOut", "CredentialUnavailable"}

\* The sign-in threads hold off authenticated operations until they have answered.
StartSignIn(phase, job) ==
  Becomes([Invalidate(Now) EXCEPT !.shell.barrier = TRUE, !.shell.phase = phase,
                                  !.spawned = Spawn(job, shell.profile)], inbox)

\* submit_email_otp_request
RequestCode ==
  /\ FormShown /\ shell.phase \in {"Idle", "Error", "AwaitingOtp"}
  /\ StartSignIn("SendingCode", "code")

\* submit_email_otp_verify
VerifyCode ==
  /\ FormShown /\ shell.phase = "AwaitingOtp"
  /\ StartSignIn("Verifying", "verify")

\* submit_sign_out
SignOut ==
  LET p == shell.profile IN
  /\ Enabled(Now) \/ shell.connection = "SignOutError"
  /\ shell.signOut[p] # "SigningOut"
  /\ Becomes([Invalidate(Now) EXCEPT !.shell.signOut[p] = "SigningOut", !.shell.phase = "Idle",
                                     !.shell.connection = "SigningOut",
                                     !.spawned = Spawn("signOut", p)], inbox)

-----------------------------------------------------------------------------
(* The tick drains the inbox.  The messages are gathered into what the shell *)
(* will show and start once all were read ("latest", "initial", "merged",    *)
(* "finished"); "trouble" is what fails meanwhile: the credential store, or  *)
(* the snapshot that came is not accepted.                                   *)

\* AuthenticationExpired and CredentialUnavailable are looked at first.
Early(m) == m.update \in {"AuthenticationExpired", "CredentialUnavailable"}

\* Mutant of BelongsTo: an answer to older work counts.
BelongsToAny(s, m) == TRUE

\* belongs_to
BelongsTo(s, m) == m.current /\ ~s.moved

\* The result of a sign-out is its phase's, whatever the generation is now.
OwnsPhase(s, m) == m.current /\ s.shell.signOut[m.profile] # None

\* preserves_auth_attempt keeps the generation of a sign-in that is under way.
ResetForSignIn(s) == IF s.shell.phase # "Idle" THEN Reset(s) ELSE Invalidate(s)

\* reset_after_credential_loss, and what the tick then shows and no longer starts.
Lost(s, connection) ==
  [ResetForSignIn(s) EXCEPT !.latest = connection, !.initial = FALSE, !.merged = None]

\* reconcile_authentication_expiry: the credential may have been replaced meanwhile.
Expired(s, m, unavailable) ==
  LET p == s.shell.profile
      signingOut == s.shell.signOut[p] # None
      present == ~unavailable /\ s.store[p] # None IN
  IF m.profile # p THEN s
  ELSE IF present THEN
    IF BelongsTo(s, m) /\ ~signingOut
      THEN [ResetForSignIn(s) EXCEPT !.latest = "SignedIn", !.initial = TRUE] ELSE s
  ELSE IF signingOut /\ unavailable THEN s
  ELSE Lost([s EXCEPT !.shell.signOut[p] = None],
            IF unavailable THEN "CredentialUnavailable" ELSE "SignedOut")

\* Of these, all of one kind come before the others.
First(s, m, kind, unavailable) ==
  IF m.update # kind THEN s
  ELSE IF kind = "AuthenticationExpired" THEN Expired(s, m, unavailable)
  ELSE IF BelongsTo(s, m) /\ m.profile = s.shell.profile THEN Lost(s, "CredentialUnavailable")
  ELSE s

\* reconcile_phase
SignOutEnded(s, m) ==
  LET failed == m.update = "SignOutFailed"
      t == [s EXCEPT !.shell.signOut[m.profile] = IF failed THEN "Error" ELSE None] IN
  IF m.profile = s.shell.profile
    THEN [t EXCEPT !.shell.phase = "Idle", !.latest = IF failed THEN "SignOutError" ELSE "SignedOut"]
    ELSE [t EXCEPT !.initial = @ \/ Enabled(s)]

\* Mutant of Retired: an answer that comes too late is just dropped.
RetiredNot(s, m) == s

\* retire_stale_auth_update
Retired(s, m) == IF m.token = None THEN s ELSE [s EXCEPT !.retiring = @ \cup {m.token}]

\* A verified token is saved when its attempt is still the one under way.
Verified(s, m, unavailable) ==
  LET t == [s EXCEPT !.shell.barrier = FALSE] IN
  IF s.shell.phase # "Verifying" THEN Retired(t, m)
  ELSE IF unavailable
    THEN [Retired(t, m) EXCEPT !.shell.phase = "Error", !.latest = "CredentialUnavailable"]
  ELSE [t EXCEPT !.store[m.profile] = m.token, !.shell.signOut[m.profile] = None,
                 !.shell.phase = "Idle", !.latest = "SignedIn", !.initial = TRUE]

\* A remote snapshot is merged into the records, and then uploaded; after too many
\* conflicts, later.
Merged(s, m, rejected) ==
  LET t == [s EXCEPT !.finished = TRUE] IN
  IF rejected THEN [t EXCEPT !.latest = "SyncError"]
  ELSE IF m.merge.conflicts >= RetryLimit
    THEN [t EXCEPT !.records = @ \cup m.records, !.latest = "SyncError", !.shell.retry = TRUE]
  ELSE [t EXCEPT !.records = @ \cup m.records, !.merged = m.merge]

\* What the other messages do; they are of the present generation.
Then(s, m, trouble) ==
  LET done == [s EXCEPT !.finished = @ \/ m.job = "upload"] IN
  CASE m.update = "AwaitingDeviceApproval" -> [done EXCEPT !.latest = "AwaitingDeviceApproval"]
    [] m.update = "RemoteSnapshot" -> Merged(s, m, trouble = "snapshot")
    [] m.update = "SyncReady" -> [done EXCEPT !.latest = "SyncReady"]
    [] m.update = "SyncBusy" -> [done EXCEPT !.latest = "SyncError", !.shell.retry = TRUE]
    [] m.update = "SyncError" -> [done EXCEPT !.latest = "SyncError"]
    [] m.update = "AuthOtpSent" -> [s EXCEPT !.shell.phase = "AwaitingOtp"]
    [] m.update = "AuthVerified" -> Verified(s, m, trouble = "store")
    [] m.update = "AuthError" -> [s EXCEPT !.shell.barrier = FALSE, !.shell.phase = "Error"]
    [] OTHER -> s

\* A message, in its turn.
Handled(s, m, trouble) ==
  IF Early(m) THEN s
  ELSE IF m.job = "signOut" /\ OwnsPhase(s, m) THEN SignOutEnded(s, m)
  ELSE IF ~BelongsTo(s, m) THEN Retired(s, m)
  ELSE Then(s, m, trouble)

Look(s, m, pass, trouble) ==
  IF pass = "others" THEN Handled(s, m, trouble) ELSE First(s, m, pass, trouble = "store")

\* The messages are gone through, one after the other.
Passed(s, pass, trouble) ==
  LET at[n \in 0..Len(inbox)] == IF n = 0 THEN s ELSE Look(at[n - 1], inbox[n], pass, trouble)
  IN  at[Len(inbox)]

\* early_reconciliation_messages, and then the others.
Read(s, trouble) ==
  Passed(Passed(Passed(s, "AuthenticationExpired", trouble), "CredentialUnavailable", trouble),
         "others", trouble)

\* What the tick starts once the messages have been read.
Settled(s, due) ==
  LET shown == IF s.latest = None THEN s ELSE [s EXCEPT !.shell.connection = s.latest]
      ended == IF s.finished THEN [shown EXCEPT !.shell.inFlight = FALSE] ELSE shown
      first == IF s.initial THEN Trigger(ended, None) ELSE ended
      next == IF s.merged # None THEN Trigger(ClearPending(first), s.merged)
              ELSE IF s.finished THEN TriggerPending(first) ELSE first IN
  IF due THEN Trigger(next, None) ELSE next

\* drain_sync_updates; "due" says that sync_retry_at has come.
Drain(due, trouble) ==
  LET start == [shell |-> [shell EXCEPT !.retry = @ /\ ~due], records |-> records, store |-> store,
                retiring |-> retiring, spawned |-> None, moved |-> FALSE,
                latest |-> None, initial |-> FALSE, merged |-> None, finished |-> FALSE] IN
  /\ inbox # <<>> \/ due
  /\ due => shell.retry
  /\ Becomes(Settled(Read(start, trouble), due), <<>>)

-----------------------------------------------------------------------------
(* The background threads *)

\* Thread i ends with a message.
Answers(i, m) ==
  /\ Len(inbox) < MaxInbox
  /\ inbox' = Append(inbox, m)
  /\ thread' = [thread EXCEPT ![i] = NoThread]

Answer(i, update) == Answers(i, Message(thread[i], update))

Goes(i, at) == thread' = [thread EXCEPT ![i].at = at]

\* with_authenticated_client: the token is loaded, or there is none, or it cannot be.
LoadToken(i) ==
  LET w == thread[i] IN
  /\ i \in Leased /\ w.at = "start"
  /\ \/ /\ store[w.profile] # None
        /\ thread' = [thread EXCEPT ![i].token = store[w.profile],
                                    ![i].at = IF w.job = "devices" THEN "call"
                                              ELSE IF w.merge = None THEN "status" ELSE "send"]
        /\ UNCHANGED inbox
     \/ store[w.profile] = None /\ Answer(i, "AuthenticationExpired")
     \/ StoreFails /\ Answer(i, "CredentialUnavailable")
  /\ UNCHANGED <<shell, records, store, retiring, service>>

\* clear_if_matches
ClearedIfMatches(p, t) == IF store[p] = t THEN [store EXCEPT ![p] = None] ELSE store

\* reconcile_authenticated_result: the service says that the session has ended.
SessionEnded(i) ==
  LET w == thread[i] IN
  /\ i \in Leased /\ w.at # "start" /\ w.token \notin live
  /\ store' = ClearedIfMatches(w.profile, w.token)
  /\ Answer(i, "AuthenticationExpired")
  /\ UNCHANGED <<shell, records, retiring, service>>

\* What else an authenticated operation fails with; a device operation that fails
\* otherwise, or succeeds, tells the device page only.
Fails(i) ==
  /\ i \in Leased /\ thread[i].at # "start"
  /\ \/ \E update \in {"AwaitingDeviceApproval", "SyncBusy", "SyncError"} :
          /\ thread[i].job = "upload" \/ update = "AwaitingDeviceApproval"
          /\ Answer(i, update)
     \/ thread[i].job = "devices" /\ thread' = [thread EXCEPT ![i] = NoThread] /\ UNCHANGED inbox
  /\ UNCHANGED <<shell, records, store, retiring, service>>

\* The snapshot of the head comes back, to be merged.
RemoteSnapshot(i, conflicts) ==
  Answers(i, [Message(thread[i], "RemoteSnapshot") EXCEPT
                !.records = head.records,
                !.merge = [base |-> head.revision, conflicts |-> conflicts]])

\* sync_bytes: what is the account's snapshot?
AskStatus(i) ==
  LET w == thread[i] IN
  /\ i \in Work("upload") /\ w.at = "status" /\ w.token \in live
  /\ IF head.revision = 0 THEN Goes(i, "send") /\ UNCHANGED inbox
     ELSE IF head.records = w.bytes THEN Answer(i, "SyncReady")
     ELSE RemoteSnapshot(i, 0)
  /\ UNCHANGED <<shell, records, store, retiring, service>>

\* Mutant of Base: an upload replaces whatever head there is.
BaseNow(w) == head.revision

\* The revision an upload replaces; the first has none.
Base(w) == IF w.merge = None THEN 0 ELSE w.merge.base

\* upload_payload: the head is replaced if it is still the base, or else comes back;
\* the answer may be lost.
Upload(i) ==
  LET w == thread[i]
      before == IF w.merge = None THEN 0 ELSE w.merge.conflicts IN
  /\ i \in Work("upload") /\ w.at = "send" /\ w.token \in live
  /\ IF head.revision = Base(w)
       THEN /\ head.revision < MaxRevision
            /\ head' = [records |-> w.bytes, revision |-> head.revision + 1]
            /\ \E update \in {"SyncReady", "SyncError"} : Answer(i, update)
       ELSE RemoteSnapshot(i, before + 1) /\ UNCHANGED head
  /\ UNCHANGED <<shell, records, store, retiring, issued, live>>

\* spawn_send_otp
SendCode(i) ==
  /\ i \in Work("code")
  /\ \E update \in {"AuthOtpSent", "AuthError"} : Answer(i, update)
  /\ UNCHANGED <<shell, records, store, retiring, service>>

\* spawn_verify_otp: a session begins, and its token is handed over, or signed out at
\* once when the user's id cannot be had.
VerifyOtp(i, t) ==
  /\ i \in Work("verify")
  /\ \/ Answer(i, "AuthError") /\ UNCHANGED <<retiring, issued, live>>
     \/ /\ t \notin issued
        /\ issued' = issued \cup {t} /\ live' = live \cup {t}
        /\ \/ /\ Answers(i, [Message(thread[i], "AuthVerified") EXCEPT !.token = t])
              /\ UNCHANGED retiring
           \/ retiring' = retiring \cup {t} /\ Answer(i, "AuthError")
  /\ UNCHANGED <<shell, records, store, head>>

\* retire_bearer, which does not insist.
Retire(t) ==
  /\ t \in retiring
  /\ retiring' = retiring \ {t}
  /\ live' \in {live, live \ {t}}
  /\ UNCHANGED <<shell, records, thread, inbox, store, issued, head>>

\* spawn_sign_out: the credential is loaded, and the operations under way awaited.
LoadForSignOut(i) ==
  LET w == thread[i] IN
  /\ i \in Work("signOut") /\ w.at = "start"
  /\ \/ thread' = [thread EXCEPT ![i].token = store[w.profile], ![i].at = "drain"]
     \/ /\ StoreFails
        /\ thread' = [thread EXCEPT ![i].update = "SignOutFailed", ![i].at = "released"]
  /\ UNCHANGED <<shell, records, inbox, store, retiring, service>>

\* Mutant of WaitUntilIdle: the sign-out does not wait for them.
WaitForNothing(i) ==
  /\ i \in Work("signOut") /\ thread[i].at = "drain"
  /\ Goes(i, "revoke")
  /\ UNCHANGED <<shell, records, inbox, store, retiring, service>>

\* wait_until_idle
WaitUntilIdle(i) ==
  /\ i \in Work("signOut") /\ thread[i].at = "drain" /\ Leased = {}
  /\ Goes(i, "revoke")
  /\ UNCHANGED <<shell, records, inbox, store, retiring, service>>

SignOutIs(i, update) ==
  thread' = [thread EXCEPT ![i].update = update, ![i].at = "released", ![i].token = None]

\* sign_out_loaded_token: the very session is revoked; when that fails it may have been.
\* The barrier is released with the outcome.
Revoke(i) ==
  LET w == thread[i] IN
  /\ i \in Work("signOut") /\ w.at = "revoke"
  /\ \/ w.token = None /\ SignOutIs(i, "SignOutSucceeded") /\ UNCHANGED live
     \/ w.token # None /\ Goes(i, "clear") /\ live' = live \ {w.token}
     \/ w.token # None /\ SignOutIs(i, "SignOutFailed") /\ live' \in {live, live \ {w.token}}
  /\ UNCHANGED <<shell, records, inbox, store, retiring, issued, head>>

\* ... and its credential cleared, unless there is another by now, or it cannot be.
Clear(i) ==
  LET w == thread[i] IN
  /\ i \in Work("signOut") /\ w.at = "clear"
  /\ \/ /\ store' = ClearedIfMatches(w.profile, w.token)
        /\ SignOutIs(i, IF store'[w.profile] = None THEN "SignOutSucceeded" ELSE "SignOutFailed")
     \/ StoreFails /\ SignOutIs(i, "SignOutFailed") /\ UNCHANGED store
  /\ UNCHANGED <<shell, records, inbox, retiring, service>>

\* ... and the shell told.
ReportSignOut(i) ==
  /\ i \in Work("signOut") /\ thread[i].at = "released"
  /\ Answer(i, thread[i].update)
  /\ UNCHANGED <<shell, records, store, retiring, service>>

-----------------------------------------------------------------------------
(* The account, elsewhere *)

\* Another device merges its records into the account's snapshot.
OtherUpload(r) ==
  /\ r \notin head.records /\ head.revision < MaxRevision
  /\ head' = [records |-> head.records \cup {r}, revision |-> head.revision + 1]
  /\ UNCHANGED <<local, issued, live>>

\* The service ends a session: it has expired, or its device was revoked.
EndSession(t) ==
  /\ t \in live
  /\ live' = live \ {t}
  /\ UNCHANGED <<local, issued, head>>

ThreadStep(i) ==
  \/ LoadToken(i) \/ SessionEnded(i) \/ Fails(i) \/ AskStatus(i) \/ Upload(i)
  \/ SendCode(i) \/ \E t \in Tokens : VerifyOtp(i, t)
  \/ LoadForSignOut(i) \/ WaitUntilIdle(i) \/ Revoke(i) \/ Clear(i) \/ ReportSignOut(i)

Tick == \E due \in BOOLEAN, trouble \in {"none"} \cup Troubles : Drain(due, trouble)

Next ==
  \/ \E r \in Records : Change(r) \/ ChangeQuietly(r)
  \/ \E r \in Others : OtherUpload(r)
  \/ TimerFires \/ SyncNow \/ UseDevices \/ RequestCode \/ VerifyCode \/ SignOut \/ Tick
  \/ \E p \in Profiles, unavailable \in BOOLEAN : SwitchProfile(p, unavailable)
  \/ \E i \in Threads : ThreadStep(i)
  \/ \E t \in Tokens : Retire(t) \/ EndSession(t)

Spec == Init /\ [][Next]_vars

-----------------------------------------------------------------------------
(* Properties *)

\* Every variable has its type.
TypeOK ==
  /\ shell \in Shell /\ records \subseteq Records /\ head \in AccountHead
  /\ thread \in [Threads -> Thread \cup {NoThread}]
  /\ inbox \in Seq(Mail)
  /\ store \in [Profiles -> Tokens \cup {None}]
  /\ retiring \subseteq issued /\ live \subseteq issued /\ issued \subseteq Tokens

\* While a sign-out revokes its session, and until its credential is cleared, no
\* authenticated operation runs, of whatever profile and generation, and none starts.
SignOutIsAlone ==
  (\E i \in Work("signOut") : thread[i].at \in {"revoke", "clear"}) => Leased = {}

\* sync_upload_in_flight is set exactly while one upload of this generation runs, or
\* its answer waits: never two uploads at once, and none awaited for ever.
OneUpload ==
  LET running == {i \in Work("upload") : thread[i].current}
      answered == {n \in DOMAIN inbox : inbox[n].job = "upload" /\ inbox[n].current} IN
  IF shell.inFlight THEN Cardinality(running) + Cardinality(answered) = 1
                    ELSE running = {} /\ answered = {}

\* Records that have reached the account's snapshot are never lost from it, whichever
\* profile, device or superseded thread uploads.
HeadKeeps == [][head.records \subseteq head'.records]_vars

\* The answers in the inbox to what the user has not turned from since.
Timely == {inbox[n] : n \in {k \in DOMAIN inbox : ~inbox[k].old}}

\* It has come out that the session of the active profile has ended.
LearnsOfExpiry ==
  /\ \E n \in DOMAIN inbox : inbox[n].update = "AuthenticationExpired" /\ inbox[n].profile = shell.profile
  /\ shell'.connection \in {"SignedOut", "CredentialUnavailable"}

\* What comes back of an operation that was started before the user went to another profile,
\* or there and back, signed out or began to sign in, changes nothing.  Whatever a tick reads
\* together, records and credentials come from timely answers only; and where none is timely
\* and no retry is due, the shell stays as it is and starts nothing.  One late answer still
\* counts: that the active profile's session has ended, when the store does not know better.
SignedOutStaysOut ==
  [][inbox # <<>> /\ inbox' = <<>> =>
       /\ \A r \in records' \ records :
            \E m \in Timely : m.update = "RemoteSnapshot" /\ r \in m.records
       /\ \A p \in Profiles : store'[p] # store[p] =>
            \E m \in Timely : m.update = "AuthVerified" /\ m.profile = p /\ m.token = store'[p]
       /\ Timely = {} /\ shell'.retry = shell.retry =>
            UNCHANGED <<shell, thread>> \/ LearnsOfExpiry]_vars

\* The tokens that somebody has: the store, a message or a thread that signs them out.
Held == retiring \cup {store[p] : p \in Profiles} \cup {inbox[n].token : n \in DOMAIN inbox}

\* A session that has begun is not forgotten, however its sign-in was superseded: its
\* token is stored, on its way to the store, or being signed out, until the session has
\* ended, an attempt at signing it out was made, or another sign-in has replaced it.
TokensAreHeld ==
  [][\A t \in live' : t \in Held /\ t \notin Held' =>
       t \in retiring \/ \E p \in Profiles : store[p] = t /\ store'[p] \notin {t, None}]_vars

\* The changes an upload was asked for.
Noted(rs) == rs \ Silent

\* Signed in, with such changes that the account does not have, and nothing that would upload
\* them: no upload scheduled, running or to be retried, and no sign-out whose end starts one.
Asleep ==
  /\ shell.connection \in {"SignedIn", "SyncReady"} /\ ~(Noted(records) \subseteq head.records)
  /\ ~shell.scheduled /\ ~shell.inFlight /\ ~shell.retry
  /\ Work("signOut") = {} /\ \A n \in DOMAIN inbox : inbox[n].job # "signOut"

\* The shell does not fall asleep over a change that it schedules an upload for: neither the
\* gate that refuses an upload silently, nor the invalidation that forgets one, nor a change
\* while one runs loses what is to be uploaded.  (The changes of Silent wait for another.)
\* Only the tick that drops the answer of a sign-out may, whose phase is over or was taken
\* over since: somebody has signed in again while that sign-out still ran.
NoLostWakeup ==
  /\ ~Asleep
  /\ [][Asleep' => \/ Asleep
                   \/ \E n \in DOMAIN inbox : inbox[n].job = "signOut" /\ ~OwnsPhase(Now, inbox[n])]_vars

=============================================================================
