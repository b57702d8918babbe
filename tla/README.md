# ELY Browser: verification project

TLA+ specifications of the parts of ELY Browser whose correctness depends on the order in
which several parties act, TLC instances that check them exhaustively on small sizes, and
TLAPS proofs of what holds at every size. Paths below are relative to the repository, which
these modules know as `src/`.

## 1. The system

ELY Browser is a desktop browser in Rust (`crates/`) that renders pages in a separate Servo
process, and a sync service in TypeScript (`cloudflare/`) that keeps end-to-end encrypted
snapshots of a user's browser for the user's devices.

    user, sync inbox                    pages
         |                                |
     BrowserCore <-- shell tick --> surface runtime --> worker queue --> sidecar process
     (crates/ely_browser_core)      (crates/ely_app/src/shell)          (crates/ely_servo_host)
         |
     sync engine, sync client --HTTPS--> Worker requests -----+
     (ely_browser_core, ely_sync_client)                      +--> D1 tables, R2 bucket
                                         cron maintenance ----+
                                         (cloudflare/src)

| component | state it keeps | operations | interacts with |
|---|---|---|---|
| Snapshot store (`sync_snapshot*.ts`, migration 0012) | D1 rows of a device's snapshot, the account's head, the encryption header; the payload in R2 | upload, download | ledger, vault key, device trust |
| R2 ledger and maintenance (`sync_r2_gc.ts`, `sync_r2_inventory.ts`, `sync_r2_maintenance.ts`, migration 0013) | one row per R2 key with a state, a token and a lease | claim, release, commit (by uploads); collect, retry, rescan, finalise (by the cron) | snapshot store, reset, rotations |
| Vault rotation (`device_revocation.ts`, `sync_vault_rotation_cleanup.ts`, migration 0011) | the current key and generation, one row per rotation with the objects it staged | rotate, clean up, finalise | uploads, cron |
| Reset (`sync_reset.ts`) | the reset receipt | reset, idempotent replay | all of the above |
| Device trust (`devices.ts`, `device_approval.ts`, `device_revocation.ts`, `pending_device_revocation.ts`, `device_rebind.ts`, `sync_vault.ts`) | devices, their approval, key envelopes, sessions bound to devices | register, approve, revoke, rebind, bootstrap | every sync request |
| Account deletion (`account_deletion.ts`, `destructive_action_gate.ts`) | the audit event that says it was done | delete, collect | snapshot store, ledger, device trust |
| Sessions, API controls, registry, releases, telemetry | third-party session rows, documents, rate counters | read-mostly requests | - |
| Client sync engine (`sync_engine.rs`, `sync_engine/`, `ely_sync_client`) and import (`state/sync*.rs`) | logical clock, the outcome of the last round | compare, upload, fetch on conflict; import of records by id, name or page | BrowserCore, snapshot store |
| Sync shell (`shell/sync_state.rs`, `sync_inbox.rs`, `settings_actions.rs`, `auth.rs`, `auth_operation_gate.rs`) | connection, upload flags, pending merge, sign-in and sign-out phases, the inbox and its generation, the operation gate | sign in, sign out, change, schedule, upload, merge, retry, drain; background threads | sync engine, credential store |
| BrowserCore (`crates/ely_browser_core/src/state/`) | tabs, spaces, groups, split views, archive, trash, site permissions, history | about 200 commands of the user | shell, sync |
| Downloads (`shell/downloads.rs`, `state/downloads.rs`, `services/http_downloads.rs`) | the list, the transfers, the file prompt, the question about a dangerous file | ask, start, pause, cancel, retry, clear, open, confirm | BrowserCore, the file system |
| Surface runtime (`shell/web_surface*.rs`) | per tab a session, its generation, what it was last sent; per profile a worker | tick: ensure, poll, read responses, discard, restart | BrowserCore, worker queue |
| Worker queue (`web_surface_worker*.rs`) | per tab a queue of requests, the turn list, closes, reloads, responses | submit, drain, drop; the thread: take, call, report, exit | surface runtime, sidecar |
| Sidecar (`crates/ely_servo_host/`) and client (`services/servo_live.rs`) | pages, permission decisions and receipts | ensure, poll, reload, close, die | worker queue |
| Local persistence (`shell/local_persistence.rs`, `local_state.rs`) | the file and the write in progress | debounce, write, restore (an import, as of a snapshot) | BrowserCore |
| Plugins, domain types, design system, packaging | values and documents | validation and rendering | - |

What is hard in this code:

* The Worker holds no lock. Every request is a chain of D1 batches and R2 calls, and two
  requests, or a request and the cron, interleave between any two of them. Requests are
  duplicated and retried, and their answers are lost. A collector that stalls is taken over
  and then wakes up.
* R2 and D1 are two stores. A payload is in R2 before any row names it, and for as long as
  any row does; nothing but the ledger's discipline sees to that.
* A rotation must not lose the only snapshot that can be read: old payloads stay until the
  head is encrypted under the new key.
* The worker queue merges and replaces requests, closes overtake ensures, and both ends of it
  can go away at any moment.
* A page loads in its own time: the sidecar issues a navigation, or skips it as needless, and
  answers at once, with a frame that may still be of the page before.
* A permission to be used once is handed over a queue to a process that may die with it.
* Signing in and out, uploads and profile changes overlap: threads come back with answers to
  questions that the user has abandoned, and a gate refuses operations without saying so.
* Machines name the same space or page by different ids; what one calls new, the other takes
  for what it has, in the order the records come in. A restart is such an import too.
* A tab is named in many places at once: by its split view, its group, its space, the archive,
  the trash. Each command has to keep them all in step.
* A download goes on while its entry is cleared, or the profile that owns it is left.

The hazards in `PROJECT.json` name each of these at the line where it bites, with the
property that would catch it, or the module of the plan that will.

## 2. Modules

| module | models | over |
|---|---|---|
| `SnapshotStore` | snapshot store, ledger, maintenance, rotation cleanup, reset, account deletion | one account; any number of requests and cron invocations |
| `HeadRegister` | what the head promises: a compare-and-swap register | abstract specification |
| `AccountTrust` | what snapshots see of devices and vault: who is approved, under which generation of the key | abstract specification |
| `SnapshotStoreProofs` | the theorems about `SnapshotStore`; that its head is a `HeadRegister` | every value of the constants |
| `DeviceTrust` | devices, sessions, key envelopes and the requests that decide about them | one account; any number of devices and requests |
| `DeviceTrustProofs` | the theorems about `DeviceTrust` | every value of the constants |
| `LiveWorker` | `LiveRuntimeWorker`: submissions, the thread, failures, drop | one worker, any number of tabs |
| `LivePages` | `LiveWorker` together with the sidecar's sessions and the pages in them | one worker, any number of tabs |
| `LiveWorkerProofs` | the theorems about `LiveWorker` and `LivePages` | every value of the constants |
| `InputStream` | what the queue promises of input: delivered in order, or lost from the end of a call on | abstract specification |
| `OneTimePermission` | one permission key from BrowserCore to the sidecar and back | one profile, its tabs, a succession of workers |
| `OneTimePermissionProofs` | the theorems about `OneTimePermission` | every value of the constants |
| `BrowserState` | tabs, spaces, profiles, split views, groups, archive and trash under the user's commands | one window; any number of tabs and spaces |
| `BrowserStateProofs` | the theorems about `BrowserState` | every value of the constants |
| `TabSync` | the spaces and tabs of machines that exchange snapshots, and restarts | one account; any number of machines |
| `TabSyncProofs` | the theorems about `TabSync` | every value of the constants |
| `SyncShell` | sign-in, sign-out, uploads, merges, retries, the inbox and the gate | one machine; its profiles and threads |
| `SyncShellProofs` | the theorems about `SyncShell` | every value of the constants |
| `Downloads` | the list of downloads, the transfers, the prompts | one window; any number of downloads |
| `DownloadsProofs` | the theorems about `Downloads` | every value of the constants |
| `MC...` | the instances for TLC: symmetry, and the values of constants that are functions | |

How they meet: `SnapshotStore` is the service that `SyncShell` and `TabSync` see only as a
head with a compare-and-swap, which is what `HeadRegister` promises of it; `SyncShell` has
when a machine exchanges snapshots and forgets what is in them, `TabSync` has what is in them
and lets an exchange begin, stop and fail at any time; `DeviceTrust` decides whose key and
session `SnapshotStore` believes, and the steps by which it does are those of `AccountTrust`,
which `SnapshotStore` has among its own; `LivePages` extends `LiveWorker` and constrains what its
calls answer; `OneTimePermission` runs over the queue of `LiveWorker`.

Every definition that stands for code has its lines in `PROJECT.json` under "map".
Definitions called "Mutant of X" are plausible wrong versions of X; no specification uses
them. Replacing X by one of them makes the property named beside it in "mutants" fail, which
shows that the property depends on that line of the code.

### SnapshotStore

State: `status` and `generation` (user_devices, sync_vault_accounts), `head`, `snapshots`,
`ledger`, `rotations` (the D1 tables), `objects` (R2), and per invocation a record `run[a]`
of its local variables: where it is (`pc`), the time it read at the start (`stamp`), its key,
what it has still to do. A D1 statement or batch is one atomic step and an R2 call another.

| action | code |
|---|---|
| `Build` | the client builds an upload from the head it last saw (`sync_engine.rs`) |
| `Receive`, `Claim`, `PutObject`, `PutFails`, `Commit`, `CommitFails`, `Release`, `Reread` | `uploadSnapshot`, in the order of its awaits; `Commit` is the whole batch with its guards |
| `StartCleanup`, `ReadCleaning`, `CleanMetadata`, `MarkClean` | `cleanupRotatedVaultStorage` |
| `StartDownload`, `GetObject`, `Recheck` | the download and its check that the head has not moved |
| `StartReset`, `Reset`, `ResetAborts` | the reset, its receipt and its replay |
| `DeleteAccount` | `accountDeletionDocument`: the batch; the collection that follows is the collector's |
| `CollectClaim`, `DeleteObject`, `MarkDeleted`, `CollectFails` | one pass of the collector, by the cron or by the end of a request |
| `ListObjects`, `RecordInventory`, `InventoryFails`, `FinalizeRotations` | the other cron steps |
| `Approve`, `Rotate`, `Dismiss` | the steps of `AccountTrust`, the part of device trust that the store depends on; a rotation also stages the stored objects |
| `Dies`, `Tick` | an invocation ends anywhere; time passes |

Reading it, mind these points.
* A request that is refused without writing leaves the tables as they are and is a stutter.
* It begins when the vault has just been made: one device is approved or several, a pending one
  may have been dismissed before, and a device that registers later is pending from the start.
* An invocation uses the time it read at its start. The check of the lease in the commit batch
  therefore passes for a stalled upload; it is the state of the row that keeps it out, which
  `HoldsToken`, a mutant of `HoldsLease`, shows for the collector.
* A released write may have put its object: `Release` hands the row to the collector.
* An R2 delete that throws after deleting is `DeleteObject` followed by `CollectFails`.
* The LIMIT and ORDER BY of the collector's queries are left out: a pass takes any subset it
  could be given. Pagination and the 24-hour pace of the inventory are left out likewise.
* The head's snapshot id is the device (`sync_engine.rs:368`), and every upload has a payload
  of its own, so a key is a payload.
* `sync_objects` rows are not modelled: nothing in the repository inserts one.
* A deleted account's devices are `"gone"`. Its ledger rows lose the user and keep the owner's
  hash (`SYNC_R2_ANONYMIZE_USER_QUERY`): a collection by user, at the end of an upload that was
  under way, then finds nothing (`Scope`), the deletion's own and the cron's find them all.
  `generation` is left as it was; nobody reads it any more.

### DeviceTrust

State: `status` (the approval status of `user_devices`, with `revoked_at`), `live` and `bound`
(sessions and their device), `challenges`, `vault`, `envelopes`, `decided` (the keys of finished
approvals, rotations and dismissals), the requests that clients have signed, and per slot `run`,
the locals of an invocation. `taken` and `accepted` are history.

| action | code |
|---|---|
| `StartRegister`, `Register`, `RereadDevice`, `Bind` | `registerDeviceDocument`: the session read, the batch, the row read again, the binding |
| `StartChallenge`, `IssueChallenge`, `StartRebind`, `Rebind` | `device_rebind.ts` |
| `SignOut` | `deleteAuthenticatedSession`, with the cascades of its row |
| `Build` | the client signs a bootstrap, an approval, a rotation or the dismissal of a pending device, from a device list that may be older than the key it holds |
| `Receive` | a delivery, the first or a later one: session, approval of the sender, the stored result, the checks before the batch |
| `Bootstrap`, `Approve`, `Rotate`, `Dismiss` | the batch with the guards of its statements and triggers |
| `Repeat`, `Answer` | a batch that finds its twin's work done; the result that is read after it |
| `Ends` | an invocation ends anywhere; also every batch that a guard aborts |

Reading it, mind these points.
* The reads before a batch are one step: the batch checks again what they saw, and a request
  that is refused changes nothing. For that reason the ages of sessions, proofs and challenges
  are left out: they only refuse.
* A rotation also aborts when the list of stored objects changes under it; here it is `Ends`.
  What happens to those objects is in `SnapshotStore`; that its `Approve`, `Rotate` and
  `Dismiss` are all it needs to know of these is `TrustAsAssumed`.
* A registration that finds its device registered changes nothing and is not followed.
* A rotation that is delivered again after a later rotation is answered with an error, although
  it was carried out (`device_revocation.ts:229`): `Answer` then leaves `accepted` alone.
* Two registrations that cross on one session both insert their device; the second gets no
  session, and if it was the account's first it is approved and comes back by a rebinding.

### LiveWorker

State: the mutex-protected `SharedState` (`pending`, `ready`, `closes`, `reloads`, the last
tab served, responses), the thread and what it has taken, whether it has been notified, and
history variables for the input that reached the sidecar. An action of the shell is a method
of `LiveRuntimeWorker`; an action of the thread is what `run_worker` does under one lock, or
the return of a client call. A submission between the thread's check and its wait is
excluded by the lock; `Notify` and `MayWait` are the condition variable.

A request has a view (address, size, zoom and colours of the page it asks for), a kind (plain,
scroll, input) and the inputs it carries; merging keeps both in the code's order. The shell's
session of a tab (`latest`, `floor`, `want`) decides whether a frame is taken, as
`accepts_frame_generation` does. What the sidecar's session of a tab has last been asked for is
history (`asked`), and what a frame shows of the page (`shot`) is left open: that is `LivePages`.
Not modelled: the test-only `wait_until_idle`, and a panic of the thread.

### LivePages

State: that of `LiveWorker`, per tab the sidecar's session (`pages`), and how far it is with the
call in flight. A session has what it was asked for (`requested_url`), the address of the page
that is there, the loads that were issued and may still end, and whether the page counts as
loading until Servo reports another address (`awaiting_url_change`).

| action | code |
|---|---|
| `Handle` | `handle_request` up to the navigation, which is skipped when the session has been asked for the address or its page is there (`live.rs:196-200`) |
| `Navigate` | `ServoHost::navigate`: the load is issued, whatever is still loading, and the hold is armed |
| `Tick` | `spin_event_loop`: a page commits a load, gives one up, or goes elsewhere by itself |
| `CommandReturns /\ Answered`, `RequestReturns /\ Answered` | the reply, with a frame of the page as it is now |
| `CommandFails /\ Broken`, `RequestFails /\ Broken` | an error, and what it leaves of the session |

Reading it, mind these points.
* Servo is external. Nothing is assumed of when or in which order its loads are committed, nor
  that a later one replaces an earlier one; pages move only while a call is in flight, because
  the sidecar runs one thread and lets Servo run only there.
* An address has the form in which it is written and that in which Servo reports it
  (`https://example.com` and `https://example.com/`); the sidecar compares the one with the other.
  `Normal` is from the one to the other.
* A page that went elsewhere by itself, whose load failed, or that was asked for while an
  earlier load was still under way has `strayed`: it may then be anything. `strayed` is history.
* Painting is left out: a call that could paint answers with a frame or without one. The
  state of a page that counts as loading is never complete; of any other it may be either.
* A session is made anew only after a close or an error; layout, zoom, colours and input, which
  may fail after the session was made and before it was asked for anything, are in `Leftovers`.

### OneTimePermission

State: BrowserCore's entry for the key, its revision and the grants it has transferred; the
shell's tick and what it last sent for each tab; the workers, each with its queue, its call,
its sidecar's stored decision, receipts not yet reported. A grant is named by its revision,
the number of audit events of the key, as the code does. `Prepare`, `Ensure` and `Collect`
are the three parts of `tick_external_web_surfaces`; changes by the user and by sync fall
between ticks because all of them run on the one UI thread. A page may use the grant
(`PageAsks`) only while the sidecar answers a request: the sidecar pumps its pages there.

The worker queue is `LiveWorker`'s, with any order of turns. Every open tab is visible and
polled on every tick; viewports, reloads and the cadence of polls are left out. A sidecar
that never starts is one that dies in its first call. The local state and sync both skip
"allow once" when they write and restore, so a restart of the browser starts from `Init`.

Worth knowing, and visible in the model:
* a grant sent to a worker that dies counts as used, whether it was or not (`Retired`): the
  code fails closed;
* a second "allow once" while the first is with the sidecar changes nothing;
* a decision that arrives by sync makes no audit event, so the revision stands still. That the
  transferred grants are dropped with it is then what keeps one decision per key.

### BrowserState

State: `core`, the part of `BrowserCore` that says where each tab is. A tab record has the list
that holds it (open, archived, in the trash with its space, in that space's own archive), its
space, profile, split view and group; a layout has its panes and whether it was saved.

| action | code |
|---|---|
| `OpenTab`, `SelectTab`, `CloseTab`, `MoveToSpace` | `state/tabs.rs`, `tab_selection.rs`; closing one pane of a saved view closes the view |
| `ArchiveIdle`, `Restore` | `tab_lifecycle.rs`, `tab_archive_restore.rs` |
| `SaveSplit`, `DetachPane`, `DuplicatePane`, `SplitRight` | `state/splits.rs` |
| `GroupActive`, `AutoGroup`, `Ungroup`, `CloseGroup`, `SplitGroup`, `GroupSplit` | `state/tab_groups.rs`, `tab_group_order.rs` |
| `CreateSpace`, `SelectSpace`, `TrashSpace`, `RestoreSpace`, `PurgeSpaces`, `SetHome` | `state/spaces.rs` |
| `CreateProfile`, `SelectProfile` | `state/profiles.rs` |

BrowserCore lives on the shell's thread, so a command is one step, the commands it calls
included: operators from a core to the set of cores that may follow stand for those.
Left out: the order of tabs and panes ("the nearest tab" is any of the space), the tab each
profile was last at, titles, addresses and times, and the import of records (`TabSync`).
The code allows four panes to a view; the run has three, which needs no more than four tabs.

### TabSync

State: per machine its `core` (spaces with their names, tabs with their space and page, what
is active), the account's `head`, and per machine the exchange it is in (`round`).

| action | code |
|---|---|
| `OpenTab`, `Navigate`, `SelectTab`, `CloseTab`, `MoveToSpace` | `state/tabs.rs`, `tab_navigation.rs`, `tab_selection.rs` |
| `CreateSpace`, `SelectSpace`, `TrashSpace` | `state/spaces.rs` |
| `Fetch`, `Upload` | `SyncEngine::sync_bytes`, `upload_payload` |
| `Merge` | the `RemoteSnapshot` arm of `drain_sync_updates`, with `apply_sync_snapshot_bytes` |
| `Restart` | the save at quitting, `BrowserCore::new`, `apply_local_state_bytes` |
| `Fail` | an exchange that ends in an error, before or after the service has acted |

`Applied` is `apply_sync_snapshot_body`: the spaces and then the tabs, each by id, or else by
name (a space), or by page and space (a tab); a tab whose space is known neither by id nor by
name goes to the active one. Lists are sets here, so a lookup of the first that matches finds
any, and the records come in any order. A new id is the first that is free: nothing depends
on which it is. Left out: other kinds of records, profiles, and the titles, flags and times
with which a record replaces those of a tab.

### SyncShell

State: what `ElyShell` keeps of Cloud Sync (`shell`), the machine's `records`, the background
threads, the `inbox`, the credential store, tokens whose sign-out a thread of its own has taken
over (`retiring`), and the service's sessions and head. The code stamps threads and messages
with a generation and only ever compares it with the present one: here they are `current`.

| action | code |
|---|---|
| `Change`, `ChangeQuietly`, `TimerFires`, `SyncNow`, `SwitchProfile`, `UseDevices` | `sync_state.rs`, `settings_actions.rs`, `sync_devices.rs` |
| `RequestCode`, `VerifyCode`, `SignOut`, `Retire` | `auth.rs` |
| `Drain` | `drain_sync_updates`: every message of the inbox, the retry that is due, what they start |
| `LoadToken`, `AskStatus`, `Upload`, `SessionEnded`, `Fails` | the upload and device threads (`run_sync_upload`, `sync_engine/session.rs`) |
| `SendCode`, `VerifyOtp`, `LoadForSignOut`, `WaitUntilIdle`, `Revoke`, `Clear`, `ReportSignOut` | the threads of `auth.rs`, with `auth_operation_gate.rs` |
| `OtherUpload`, `EndSession` | another device, and the service (external) |

`TryAcquire`, `Leased` and `Draining` are the operation gate: an operation takes a lease unless
a barrier is held or drains, and a sign-out waits until no lease is left. The product document
states what it is for (`PRD.md:964`). `Passed` takes a tick through the messages one by one,
by a function that is recursive over their number.

A record is a change. Most commands schedule an upload (`Change`); some change what is in the
snapshot and schedule nothing (`ChangeQuietly`, the records in `Silent`; section 6 lists them),
and these wait until something else is uploaded. `old` is history: an operation is old when the
user has since gone to another profile, or there and back, signed out, or begun to sign in.

### Downloads

State: `download_entries`, the file prompts that are open, per download its background task
and the result it holds, the files, the question about a dangerous file. A transfer publishes
its file by a rename (`Publish`) before the shell hears of it (`Deliver`), and every lookup of
an entry is among those of the active profile. Bytes, progress and checksums are left out.
Two downloads that were given the same path overwrite each other, in the code as here.

## 3. What the runs check

| run | instance | properties | what it shows |
|---|---|---|---|
| `Rotation` | 2 devices, 3 payloads, 2 uploads at a time, 2 key generations | `StagedRetained`, `CleanupAfterReencryption`, `CommitsAreCurrent`, `HeadIsRegister` | uploads race with each other and with a rotation; what it staged stays until the head is re-encrypted; the head is a register |
| `Reset` | 1 device, 2 payloads, an upload, a download, a reset delivered twice, failures and retries | `NeverLost`, `PutsAreTracked`, `ReplayWipesNothing` | a download never misses its object, no put escapes the ledger, and the second delivery of a reset wipes nothing that came after the first |
| `Maintenance` | 1 upload, a payload older than the ledger, a deletion of the account, the cron | `SnapshotsStored`, `GarbageIsCollected` | collections that overlap, die, stall and take over delete nothing that is referred to, and leave nothing behind, not of a deleted account either |
| `Trust` | 2 devices, 2 sessions, 3 requests, 2 invocations at a time, from an empty account | `KeyIsForTheApproved`, `SomeoneIsApproved`, `EffectOnce`, `BoundForGood` | decisions cross, repeat and die: the key is wrapped for exactly the approved, somebody stays approved, each request acts once, a session keeps its device |
| `Sync` | 2 profiles, 1 session, 2 changes of which one is quiet, 2 threads, another device, a store and snapshots that fail | `SignOutIsAlone`, `OneUpload`, `NoLostWakeup`, `HeadKeeps`, `SignedOutStaysOut`, `TokensAreHeld` | uploads, sign-outs and profile changes overlap: no operation runs beside a sign-out, one upload at a time, no change that was scheduled is left behind, nothing uploaded is lost, answers to what the user has turned from change nothing, no session is forgotten |
| `Machines` | 2 machines, 2 names, 2 pages, 2 edits (a restart is one), exchanges that cross and fail | `Agreement`, `RestartKeepsPages` | after two rounds of each machine they show the same; a restart keeps every page, in a space of its name |
| `Browser` | 4 tabs, 2 spaces, 2 profiles (one private), 2 split views of up to 3 panes, 1 group | `ActiveIsOpen`, `SplitsMatchTabs`, `GroupsKeepToTheirSpace`, `SavedSplitsStayTogether` | in every sequence of commands there is an active tab and every space has the one it was left at; tabs and layouts agree; groups stay in their space; saved views close and come back whole |
| `Transfers` | 2 downloads, a plain and a dangerous path, a standard and a private profile | `PrivateLeavesNothing`, `CompletedIsPublished`, `DangerousIsConfirmed` | results and answers that come late bring back nothing that is gone, claim nothing that is not there, and open nothing unasked |
| `Inputs` | 1 tab with its page, 3 requests of three kinds, 2 views, 3 addresses, a close | `Converges`, `FramesAreCurrent`, `InputInOrder` | merging, replacing, closing and reopening lose no input and no last word, the session shows it or loads it, and no frame presents an earlier page as the finished one |
| `Ends` | 2 tabs, reload, close, drop, every end of the thread | `EndIsReported`, `TakesTurns`, `RequestsAreServed` | tabs take turns, requests are served, the end is reported, the owner's drop returns |
| `Grants` | 2 tabs of a persistent profile, 2 workers, 1 fault, a decision by sync | `UsedOnce`, `WithdrawnStaysWithdrawn`, `GrantsAreKept`, `OneDecision` | requests overtake each other and a sidecar dies: a grant is used once, withdrawn for good, not spent by a failure, and there is one decision per key |
| `Receipts` | 1 tab, either kind of profile, the shell and the workers taking their steps | `UsesAreReported`, `DenialArrives` | a use is reported, a denial arrives |

Each property is stated in words above its definition. The type invariants are checked along
with the proofs (section 5), where there are proofs.

Bounds. `MaxRevision`, `MaxGeneration`, `MaxTime`, `MaxRequests`, `MaxBacklog`, `MaxFaults`,
`MaxWorkers`, `MaxInbox` and `MaxEdits` cut off counters and queues the code lets run, and
`LastRequest` and `FaultsEnd` say how long requests arrive and failures happen. They are chosen so
that a hazard fits: three payloads are one head, one displaced by it and one staged; two
generations are one rotation; the collections of an upload, a deletion and the cron are a stalled
collector and the one that takes over; a time of two is a lease that runs out and one that is
running; three requests are enough to queue one, merge or replace one and ask for the first page
again, or to close and reopen, and three addresses are two pages of which one is not written as
Servo reports it (in `Inputs` the shell reads the answers before the next call begins, `Prompt`: a
frame is taken or not by what the session has when it is read, and what it is of is settled when
the call returns); in `Trust` three requests are a bootstrap and two decisions that cross, and two
sessions a device that decides while the other one registers; two threads are an upload and the
sign-out that waits for it, or the sign-in that supersedes it; two revisions are another device's
upload and this machine's over it, with a conflict between (`RetryLimit` is 1 where the code has 3:
only whether it is reached matters; a tick of `Sync` finds one message, in the theorems any
number); one change that schedules an upload, which may also be made elsewhere, and one that does
not and comes later (`QuietComesLater`: the other order only adds a record to what is uploaded);
two edits are a space or tab made here and a restart, or a change on either machine, and there are
ids enough for every action to be taken (7 tabs and 6 spaces: checked). `Agreement` is about two
machines, as the run and the theorem have it: with three machines and two edits TLC finds it
violated (section 6). The mutants measure the bounds: each wrong version of the code is found
within the same bounds. Where the number of tabs or devices is small, the symmetry of the actors
and the proofs (section 5) take over.

Only `Maintenance` has a deletion of the account: it would take the instances of `Rotation` and
`Reset` past what can be checked, and the theorems of section 5 hold with any number of them.

Deadlock is checked in `Browser` and `Transfers`, where the user can always do something.
The other instances stop when their bounds are used up, and the systems themselves may rest
(no request, no user).

## 4. Fairness

* `SnapshotStore!FairSpec`: the clock advances, and each cron invocation takes its next step.
  Cloudflare starts the cron every few minutes and a pass that dies is replaced by the next
  one. Nothing is assumed of requests or clients, so uploads may stall for ever.
* `LiveWorker!FairSpec` (run `Ends`): the thread runs (the operating system schedules it, and a
  call of the sidecar gives up after its time-out of ten seconds). Nothing is assumed of the shell.
  `RequestsAreServed` has the premise that reloads come to an end, because the code gives them
  priority over everything.
* `OneTimePermission!FairSpec`: the tick goes on (the UI timer), a restart delay passes, and
  each worker's thread finishes its call. Nothing is assumed of the user or of pages.

## 5. What is proved

`SnapshotStoreProofs` (TLAPS), for any number of devices, payloads, requests and cron
invocations, any bounds and any lease lengths, from `ConstantsAssumption` and
`ActorsAssumption` (the kinds of invocations are disjoint, the null values are not members):

| theorem | says |
|---|---|
| `StoreInvariant` | `Spec => []StoreInv` |
| `SnapshotsAreStored` | `Spec => []SnapshotsStored`: a snapshot's object is in R2 and its row is referenced |
| `StagedObjectsAreRetained` | `Spec => []StagedRetained` |
| `CleanupFollowsReencryption` | `Spec => []CleanupAfterReencryption` |
| `HeadsAreReadable` | `Spec => []HeadReadable` |
| `HeadsAreCurrent` | `Spec => CommitsAreCurrent`, an action property |
| `ReplaysWipeNothing` | `Spec => ReplayWipesNothing`, an action property |
| `DeletedAccountsStayEmpty` | `Spec => []GoneForGood`: nothing comes back to a deleted account |

None of the safety properties is inductive. `SnapshotsStored` would fail in a state where a
collection pass holds a key that a row names, or where an upload stands before its commit
with its object gone. `StoreInv` rules those out: `DeadKeys` says that a key a pass holds has
no pending write and is not retained, `PutBeforeCommit` that a pending row at the commit has
its object, `RowsAreUploads` that no two rows share an object, `HeadHasRow` that the head and
its row agree, and `StagedAreOld` with `CleaningIsQueued` order a rotation's objects against
the generations of the rows that stay. The proof goes by the facts an action changes: lemmas
for the type of an invocation's locals, for the ledger moving only forward (`ForwardStep`),
for the actions that touch no data (`CalmStep`), only one invocation's locals (`RunStep`), and
for those that write rows (`DataStep`).

On top of `StoreInvariant` the same module has

| theorem | says |
|---|---|
| `DownloadsFindTheirObject` | `Spec => []NeverLost` |
| `PutsStayTracked` | `Spec => PutsAreTracked`, an action property |
| `HeadImplementsRegister` | `Spec => HeadIsRegister`: every step of the store is a step of the compare-and-swap register, or none |

`DownloadInv` is why a download that finds no object has lost the head: the row of its key has
left pending, a row never returns to pending, and only a pending row becomes the head, so once
the head has moved it does not come back to that key. `PutInv` ties an upload at its put to
its row, which has the lease it claimed or one that is over. `RegisterInv` says what the
register remembers of the past: what has been head is spent, rows bear the clock of their
upload, and an upload that is answered as confirmed has been head. The steps go by what a
commit, a reset and every other step does to the head (`HeadStep`).

`DeviceTrustProofs`, for any number of devices, sessions, requests and invocations and any
bounds, from `ConstantsAssumption`:

| theorem | says |
|---|---|
| `TrustInvariant` | `Spec => []TrustInv`, and with it `TypeOK` |
| `KeyIsForTheApprovedAlways` | `Spec => []KeyIsForTheApproved` |
| `SomeoneIsAlwaysApproved` | `Spec => []SomeoneIsApproved` |
| `EffectIsOnce` | `Spec => []EffectOnce` |
| `SessionsAreBoundForGood` | `Spec => BoundForGood`, an action property |
| `TrustIsAsAssumed` | `Spec => TrustAsAssumed`: once the vault is made, every step is a step of `AccountTrust`, or none |

`KeyIsForTheApproved` alone is not inductive: a first bootstrap wraps the key for one device
only, so before it there must be only one (`OneBeforeTheVault`); a rotation may meet envelopes
that already bear its generation, so none may be ahead of the vault (`EnvelopesAreOld`); and an
approval under no key at all would approve without an envelope (`BodiesAreSane`). `EffectInv`
ties `taken` to the trace a request leaves, its key in `decided` or its name on an envelope;
a decided approval has a target that is never pending again, so it cannot act twice. Three
devices are needed for an approval that crosses the rotation of a third; the run has two, the
theorem any number.

`TrustIsAsAssumed` joins the two models of the service: the theorems about `SnapshotStore` take
the steps of `AccountTrust` for all that can happen to devices and key, and here `DeviceTrust`,
read through `Seen` (a device that has not registered is one that is pending) and the vault's
generation, makes no others. The batch of a rotation does not bear that alone: its guard
(`Rotatable`) refuses a target that is revoked, but not one that is pending. That the target is
approved was checked before the batch; `StartedRotations` says that it still is or has been
revoked since, because nothing makes an approved device pending again. The property is not
among those of the runs: TLC has checked it and `StartedRotations` on the instance of `Trust`,
and its statement begins at the bootstrap, before which `SnapshotStore` has no state.

`DownloadsProofs`, for any number of downloads, paths and profiles, from `ConstantsAssumption`:

| theorem | says |
|---|---|
| `DownloadInvariant` | `Spec => []DownloadInv`, and with it `TypeOK` |
| `PrivateListsVanish` | `Spec => []PrivateLeavesNothing` |
| `CompletedArePublished` | `Spec => []CompletedIsPublished` |
| `DangerousAreConfirmed` | `Spec => DangerousIsConfirmed`, an action property |

`CompletedIsPublished` needs that an entry shows the path of its own transfer
(`EntriesHaveTransfers`), that a result follows its file (`ResultsHaveFiles`), and that an id
is drawn once (`AskedAreNew`).

`BrowserStateProofs`, for any number of tabs, spaces, profiles, split views and groups, from
`ConstantsAssumption` (the tabs are finitely many, the null value is no member):

| theorem | says |
|---|---|
| `BrowserTypes` | `Spec => []TypeOK` |
| `SomethingIsActive` | `Spec => []ActiveIsOpen` |
| `SplitsAgree` | `Spec => []SplitsMatchTabs` |
| `GroupsStayHome` | `Spec => []GroupsKeepToTheirSpace` |
| `SavedSplitsKept` | `Spec => SavedSplitsStayTogether`, an action property |

`ActiveIsOpen` alone is not inductive. Closing a pane of a saved view closes every pane, so
the tab that takes over must be outside the view, and is found only if the view's panes share
a space (`PanesAreTogether`) and every open tab is in a space that is not in the trash
(`Placed`); a view comes back whole only if the archived panes still point to it
(`TabsArePanes`). `Good` adds these to the properties. The invariant has two halves: `Sound`
is kept by every part of a command (`DetachedSound`, `PutSound`, `AddedSound`, ...), so the
commands that call one another are proved by chaining these lemmas; that the active tab is
open (`ActiveIsHere`) and that each other space remembers an open one (`Remembering`) are
broken in the middle of a command and only restored by its end, so each command has a lemma
of its own (`CloseTabGood`, `TrashSpaceGood`, ...). `Kept` collects what the action property
needs of a step, and a command that archives and restores nothing (`Quiet`) has it for free.

`LiveWorkerProofs`, for any number of tabs, views, addresses and requests, from
`ConstantsAssumption` and `PagesAssumption` (an address that Servo reports is in its own form):

| theorem | says |
|---|---|
| `WorkerInvariant` | `Spec => []WorkerInv`, and with it `TypeOK` |
| `QueueTakesTurns` | `Spec => TakesTurns`, an action property |
| `PagesInvariant` | `PagesSpec => []PagesInv` |
| `SidecarServesTheWorker` | `PagesSpec => Spec`: with its pages the worker still is the worker |
| `PagesConverge` | `PagesSpec => []Converges` |
| `AcceptedFramesAreCurrent` | `PagesSpec => []FramesAreCurrent` |
| `EndsAreReported` | `Spec => []EndIsReported` |
| `InputKeepsItsOrder` | `Spec => InputInOrder`: the refinement of `InputStream` |

`WorkerInv` follows the shell's last word on a tab on its way: it is the last request of the tab's
queue, or the close in line, or what the call in flight will leave behind (`LastWord`, `Coming`).
For frames it speaks of every request, call and answer on the way, and of the generations a session
may accept "now or later" (`Current`), because a floor that is raised between the request and its
frame is the case that matters. `PagesInv` joins to it what is true of the pages: of a session by
itself, that its page is the one it was asked for, or a load of it is under way, or it has strayed,
and that a page which does not count as loading is not the one before (`SoundPage`); that what the
queue believes of a session, `asked`, is what the session has been asked for, also between the two
halves of a call (`PromisesInv`); and that a frame under way which calls its page finished shows
the page its view asks for (`ShotsInv`). The hold on the loading page is needed for the last: until
a navigation is committed Servo may report the page before as complete (`AwaitsNothing`, a mutant
of `Awaits`). Turns need that a tab stands once in line (`LinesInv`), and that one that was served
meanwhile stands behind (`TurnsInv`).

The refinement reads the stream off the queue: what waits for a page is the input its requests
carry, one after the other (`Flow`). A request takes its place in the queue in one of four ways
(behind the others, or over a poll, over a request without ordered input, or merged with a
scroll), and all of them amount to `Flow(line) \o Carried(new)` (`FlowOfEnqueued`): what is
replaced must have carried nothing (`InputsInv`), and what is merged must be meant for the same
view (`CarriedTogether`). So a submission is a `Give` or a stutter, the thread's `TakeRequest` a
`Hand` or a stutter (`FlowOfFirst`), a close a `Close`, and each of the three ends of the thread
a `Stop`. `Flow` is a recursive function, reasoned about by induction up to the line's length
(`LeastNumber`, `UpTo`, from the library's `NatLessThanWellFounded` and `WFMin`).

`OneTimePermissionProofs`, for any number of tabs, workers, revisions, receipts and failures,
from `ConstantsAssumption`:

| theorem | says |
|---|---|
| `PermissionInvariant` | `Spec => []PermissionInv`, and with it `TypeOK` |
| `GrantIsUsedOnce` | `Spec => []UsedOnce` |
| `GrantsAreNotLost` | `Spec => []GrantsAreKept` |
| `WithdrawalIsFinal` | `Spec => []WithdrawnStaysWithdrawn` |
| `DecisionIsOne` | `Spec => []OneDecision` |

None of the four is inductive, and none can be had without the others. What carries them is the
order of requests. While a grant is held, every request made since it was given shows it
(`HeldIsShown`), so in the order of their generations the requests that show it have no gap
(`Ordered2`), and a sidecar that skips outdated requests has it from the first to the last of
them (`HeldIsStored`). A grant that has been used comes only to a sidecar that knows it as
used (`UsedIsKnown`), one that was dropped is neither held, stored nor shown again
(`DroppedIsOver`), and one that is held is offered and tracked by the registered worker alone
(`HeldIsTracked`), so what a new worker is told cannot revive it.

`SyncShellProofs`, for any number of profiles, tokens, records, threads and messages, from
`ConstantsAssumption` and `NullAssumption`:

| theorem | says |
|---|---|
| `ShellInvariant` | `Spec => []ShellInv`, and with it `TypeOK` |
| `SignOutRunsAlone` | `Spec => []SignOutIsAlone` |
| `UploadsAreOne` | `Spec => []OneUpload` |
| `SnapshotsKeepRecords` | `Spec => HeadKeeps`, an action property |
| `SignedOutChangesNothing` | `Spec => SignedOutStaysOut`, an action property |
| `TokensStayHeld` | `Spec => TokensAreHeld`, an action property |
| `NothingFallsAsleep` | `Spec => NoLostWakeup`: the shell is not asleep at first, and no step puts it to sleep but the tick that section 6 tells of |

`SignedOutStaysOut` has three parts, of the tick: records come only from a snapshot that the user
has not turned from, a credential only from a sign-in of which the same is true, and if neither
a timely answer nor a retry is due then the shell stays as it is and starts nothing, but for
what it learns of its own session having ended. The code knows nothing of `old`; it compares
generations and looks at the phase of a sign-out. That the one amounts to the other is `OldInv`:
whatever is old is of another generation, but for a sign-out of before, which is still waited for.
What a tick has gathered after any of its messages then comes from timely ones, or is what
the shell had (`TimelyGathered`, kept by each message: `GatheringTimely`).

`ShellInv` relates what the shell believes to the threads and messages there are: the upload
in flight is one thread or one message of the present generation (`UploadInv`), work of this
generation is of the profile and of the phase the connection shows (`WorkInv`, `PhaseInv`), a
merge that may be uploaded contains what it replaces (`MergesInv`), and the tokens on their way
are the service's (`TokenInv`). A tick handles every message of the inbox in one step, and each
may change what the next one meets. `Passed` is therefore proved about by induction over the
messages: every set of numbers has a least one (`LeastNumber`, from the library's
`NatLessThanWellFounded` and `WFMin`), so a condition on what is gathered that holds at the
start and that one message keeps (`PassKeeps`, for any such condition) holds at the end. From
there the tick and the user's actions go by their `Outcome`, the threads' by `Progress`.

`NothingFallsAsleep` is about the changes for which the code schedules an upload (`Noted`); it
needs `WakeInv` besides: the upload in flight has every such record of the
machine or will be followed by another one, once it has succeeded the head has them, and what
comes back for a merge is in the head (`CoverInv`); and a sign-in holds operations off only
while its form is shown, so that no attempt at an upload is refused but for a sign-out that
drains. The tick is where a wake-up could be lost. `WakeGathered` says what it has gathered
after any of the messages: unless a start is due for a reason of the tick's own (`initial`,
`merged`), what was in flight, pending, scheduled or to be retried still is, the answer that
ended an upload was of all the records, and no sign-out's phase has ended. A first look at a
message (`ReconciledWakes`) and its handling (`TakenWakes`) keep it, and `SettledLeaves` has
what `Settled` then starts. A step of a thread only adds a message and only enlarges the head
(`StepsWake`, `HeadGrows`).

`TabSyncProofs`, for any number of spaces, tabs, names and pages, and of machines but for the
last theorem, from `ConstantsAssumption` (finitely many ids: they are UUIDs) and `NullAssumption`:

| theorem | says |
|---|---|
| `TabInvariant` | `Spec => []TabInv`, and with it `TypeOK` |
| `RestartsKeepPages` | `Spec => RestartKeepsPages`, an action property |
| `TwoMachinesAgree` | `Spec => []Agreement`, of two machines and two rounds of each at least |

`RestartKeepsPages` needs that an open tab is in a space that is saved with it (`Sound`): the
tab's record is put into the space of that id or name, and with neither it would go to
whatever space is shown. `Sound` must hold of what was merged from other machines too, and a
snapshot that comes from the service need not be sound itself: it is that of the receiving core
that a record keeps (`SpaceKeepsSound`, `TabKeepsSound`), because `SpaceFor` never finds a space
that is not there. `TabInv` has besides that nothing that is exchanged, or is about to be,
gives a space another name than somebody else does (`NamesInv`): spaces are never renamed, and
an id drawn anew is nobody's. How a snapshot is applied in any order of its records is a set of
intermediate states for each number of records done (`Applied`); what a core has at first and
every record keeps (`AppliedKeeps`) it has in the end. For a restart that is `Restoring`: the
spaces made so far have ids that no record has, every name is found, only the tab the window
started with is not of the snapshot, and every page put so far is shown. So a record never
replaces a tab of another page, which is what the ids drawn anew are for.

For `TwoMachinesAgree` it is `Merging` and `Uniting`, and what they come to at the end of a merge
is `MergeAligns`: the tabs that the core has in common with what was merged show the same now
(`Aligned`), whatever they showed before; and if they did before, no record moves a tab, so the
core shows exactly what it showed and what was merged. `TurnInv` counts the uploads that this
takes. After one, the next machine merges and is aligned; after two, the other merges the same
tabs and shows what both did; after three, the first shows no less; after four both have completed
two rounds. The machine that has uploaded last has nothing to fetch (`Turn`), and an exchange
that was under way when somebody else uploaded starts again from the new head, so only one
machine's upload can be the next that counts, and it is of what it has now (`Answers`). The
induction is `TurnStep`; a change by the user, or a restart, starts the count again. That there
are just two machines is needed (section 6).

Model-checked only: liveness (`RequestsAreServed`, `GarbageIsCollected`, `UsesAreReported`,
`DenialArrives`), which is out of this prover's reach. Every invariant and every other property
of a run is a theorem.

## 6. Disagreements found

No run of this project expects a violation: what follows was met while modelling, by a run of
the module named, or of a variant of it, and read again in the code.

Where a document, a comment or a test says otherwise:

* **A later edit is undone by the next round** (`TabSync`). `sync_bytes`
  (`sync_engine/session.rs:22-37`) downloads the head and, when its bytes differ from the
  machine's, returns it to be merged; the merge replaces tabs by records of the same id, whatever
  their times. So with a single machine a tab that was navigated since the last upload goes back to
  where it was, and one that was closed is opened again, while its archived copy stays. The product
  document says that ordinary objects are resolved by `updated_at`, device and logical clock
  (`PRD.md:763`).
* **A session of a revoked device** (`DeviceTrust`). A registration inserts its device, reads
  the row back and binds its session in three steps (`devices.ts:206`). If the device is revoked
  after the second, the binding still goes through, and a revoked device has a live session,
  where the acceptance list (`PRD.md:1579`, S-003) says that a device's sessions are void once
  it is revoked. Decisions and uploads ask for the approval again and refuse that session; a
  repeated delivery of the revocation counts it and is answered with an error.
* **Two saves at once** (not modelled). `services/local_state.rs:1-3` promises that a crash in
  the middle of a write never truncates the previous state. A save in the background may still
  run when the next one, or the one at quitting, begins (`local_persistence.rs:106-146`); both
  write `json.tmp`, the second truncates what the first is about to publish by its rename, and a
  crash then leaves a document that does not parse: it is put aside, and the window starts empty.
* **Finalisation of a rotation** (`SnapshotStore`). The cron's query counts a staged object that
  an old row still names as clean, so between the statement that opens a rotation's cleanup and
  the batch that deletes its rows it marks the rotation cleaned
  (`sync_vault_rotation_cleanup.ts:140`). If the request dies in between, nothing looks at that
  rotation again. The test of the cleanup asserts both halves at once. The rows are
  undecryptable history, so no snapshot that can be read is affected (`SnapshotsStored` holds).
* **Closing a group** (`BrowserState`, `CloseGroup`). `close_active_tab_group` closes its tabs
  one by one; two of them in one saved split view close together, the second then fails with
  `TabNotFound` and the tabs after it stay open (`state/tab_groups.rs:159`), where
  `docs/ui-shell.md:169` says that the group's tabs are closed.
* **Retrying a download** (`Downloads`, `Control`). Retry and resume change the entry's state and
  start no transfer (`shell/downloads.rs:114`), so the entry stays in progress for ever; so does
  one whose result comes while another profile is active (`state/downloads.rs:158`). `PRD.md:553`,
  promises both.

Without a document to hold them against:

* Changes that no upload follows (`SyncShell`, `ChangeQuietly`). Commands that change what the
  snapshot contains schedule an upload by `schedule_cloud_sync_upload`, but several do not: a site
  permission that is set, revoked or cleared (`shell/site_permissions.rs:14-58`), a space's archive
  policy and the sidebar's settings when reset (`settings_actions.rs:24-28`, `212-218`), tabs
  archived by command (`315-321`), a note that is removed (`notes.rs:8-12`), and the history when
  cleared (`history.rs:79-90`). (A permission for one use, which also changes without an upload
  when it is used up, `web_surface_controller.rs:89-108`, is not in the snapshot.) They stay on the
  machine until something else is uploaded; nor is the local state saved for them before then or
  the end (`schedule_local_state_save` is called from the same place). Hence `Silent`, and
  `NoLostWakeup` is about the other changes.
* A navigation that is skipped (`LivePages`, `Remembered`). When a session at page A was asked for
  B, and is asked for A again before B is committed, the page is still at A and nothing is
  issued (`live.rs:199`); B still loads, and the tab ends at B with A in its address bar until the
  next frame tells. This is why `Converges` leaves out a page that was asked for over a load.
* A frame of the page before (`LivePages`, `Report`). `navigate` only issues the load, and the frame
  polled in the same call may still show the old page, with its address, under the new
  generation. The shell takes it (`accepts_frame_generation`), finds an address other than the one
  it asked for and sets the tab's address to it (`url_change_for`), until the load is
  committed and reported. That frame says it is loading, which is what `FramesAreCurrent` has.
* Of three navigations A, B and A again, a frame that reports the page's own move to C may be
  refused because it is of an older generation, while the last navigation is skipped: the
  address stays A over the page C until the next frame.
* The hold on a loading page stays armed when the address that is committed is the one that was
  there (Servo reports no change then); the page is shown as loading until it goes elsewhere. And
  the page before may move to another address by itself while a navigation is under way: that
  ends the hold early (`runtime_webview.rs:116`).
* Two machines never stop uploading (`TabSync`). A space taken by its name keeps the id it has
  on each machine, so their snapshots always differ and each round uploads anew. They do show
  the same (`Agreement`).
* Of three machines, no number of rounds makes sure that all show the same (`TabSync`). A tab that
  was moved on the first stays where it was on the second for as long as the second sees only
  what the third makes of it: there the tab was taken for another one at the same page and is
  not in the snapshot. When the second meets the first at last, its tab moves, in one order of
  the records, after another page's record was taken for it, and that page is gone there until the
  next snapshot brings it back. TLC finds this, in a variant of `Machines` with three of them and
  two tabs navigated on one, for every `Enough` tried from 2 to 8. With two machines
  (`TwoMachinesAgree`) there is nobody in between.
* The window may lose its active tab (`TabSync`). A record may move the active tab to another
  space while the active space stays; `trash_space` of that other space then removes the tab
  without selecting another (`state/spaces.rs:172-186`), and commands fail with
  `MissingActiveTab`. `ActiveIsOpen` of `BrowserState` is about windows without an import.
* An import (`state/sync.rs:315`) replaces a tab by a fresh one, without its split view and group,
  and brings back as open a tab that is in the archive or in the trash here.
* Two open tabs at one page in one space are one after a restart; archive, trash, split views,
  groups and downloads are not saved.
* The first synchronisation after signing in may be left out (`SyncShell`). When a session ends
  while its sign-out is under way, an upload that learns of it ends the phase, the user may
  sign in again, and the first upload of the new session is refused silently by the barrier the
  old sign-out still holds (`settings_actions.rs:296`). The next change starts one.
  `NoLostWakeup` therefore excepts the tick that drops the answer of a sign-out whose phase is
  over, or another's, by then: that answer would have started the upload.
* A stored token that could not be read (`CredentialUnavailable`) is overwritten by the next
  sign-in, and its session is never ended.

## 7. Not modelled, and the plan

Next, in this order:

1. `SurfaceRuntime`: visibility, navigation inside the page, restart back-off, as the second half
   of the tick `OneTimePermission` has; composed with `LiveWorker`.
2. The import with split views, groups, archive and trash: `BrowserState` and `TabSync` composed.
3. The debounce and the writing of the local state; account deletion beside registrations
   (`DeviceTrust`).

Left out for good: Servo, pixels and the wire format (external); encryption and encoding of
payloads (values here); sessions, API controls, registry, releases and telemetry (single
statements on documents); plugins, domain types, the design system and packaging (sequential
values without shared state).
